---- MODULE Spec2Model ----
(***************************************************************************)
(* A model of the skill evaluation harness (evals/skill_eval):             *)
(*   - Workspace       (workspace.py): sandbox directory, baseline         *)
(*                     snapshot and change detection;                      *)
(*   - EvalRunner      (runner.py) with SkillEvaluator (evaluator.py) and  *)
(*                     FixtureLoader (fixtures.py): bounded-concurrency    *)
(*                     execution of a test suite;                          *)
(*   - EvalTracker     (tracker.py): result records, history file and      *)
(*                     trend summary.                                      *)
(* Each component has its own specification (SpecWs, SpecRun, SpecTracker, *)
(* SpecHistory) over the shared variable list; a specification leaves the  *)
(* variables of the other components at their initial values.              *)
(*                                                                         *)
(* Python's Optional[T] is modelled as a sequence of length at most one:   *)
(* << >> is None and <<v>> is the value v.                                 *)
(***************************************************************************)
EXTENDS Integers, Sequences, FiniteSets, TLC

VARIABLES
    \* ---- Workspace (workspace.py)
    disk,            \* files under base_dir: relative path -> content
    dir_exists,      \* whether base_dir exists
    initial_state,   \* Workspace._initial_state: Optional[path -> hash]
    changes,         \* value returned by the latest get_changes since the last mutation
    prevChanges,     \* value returned by the get_changes before it, same condition
    mutated,         \* a mutating call happened since setup
    setup_baseline,  \* history variable: what setup captured
    ws_ret,          \* the latest accessor call and its return value
    \* ---- EvalRunner.run (runner.py), SkillEvaluator (evaluator.py)
    tests,           \* the suite's test entries, as written in the YAML files
    max_concurrent,  \* run's max_concurrent argument
    observer,        \* whether run was given an observer
    run_pc,          \* where run is: start, gathering, returned, raised, cancelled
    loaded,          \* load_tests' result: the entries after FixtureLoader.load
    valid_tests,     \* indices of the tests handed to the evaluator, in load order
    skipped_tests,   \* indices of the tests whose fixture has an error
    results,         \* run's results dict
    sem_value,       \* free permits of the asyncio.Semaphore
    pc,              \* per test: where its run_test task is
    ws_dir,          \* per test: the directory of the Workspace its evaluation made
    result,          \* per test: Optional result dict returned by run_test
    evaluated,       \* tests for which evaluator.evaluate was called
    \* ---- EvalTracker (tracker.py)
    files,           \* results_dir: file name -> text
    now,             \* the clock, in ticks
    saved,           \* history variable: what each save_results call wrote
    trend,           \* Optional: the latest get_trend_summary call and its return value
    history,         \* Optional text of the history file
    updates,         \* number of update_history calls made
    written,         \* history variable: the entry each update_history call wrote
    \* ---- check_assertions (assertions.py)
    output,          \* the output argument: a text
    assertions,      \* the assertions argument: a list of assertion dicts
    assert_ret,      \* Optional: what the call did (raised, or the list returned)
    \* ---- WorkspaceAssessor (assessor.py)
    subject,         \* the call assessed: method, arguments, what the workspace holds
    assessment       \* Optional: the AssessmentResult of the call

wsVars == <<disk, dir_exists, initial_state, changes, prevChanges, mutated,
            setup_baseline, ws_ret>>

runVars == <<tests, max_concurrent, observer, run_pc, loaded, valid_tests,
             skipped_tests, results, sem_value, pc, ws_dir, result, evaluated>>

trVars == <<files, now, saved, trend>>

histVars == <<history, updates, written>>

asVars == <<output, assertions, assert_ret>>

asmVars == <<subject, assessment>>

vars == <<wsVars, runVars, trVars, histVars, asVars, asmVars>>

(***************************************************************************)
(* Bounds                                                                  *)
(***************************************************************************)
MaxContent == 1          \* file contents are 0..MaxContent; 0 is the empty string
NumTests == 3            \* the suite has at most NumTests test entries
MaxConcurrent == 2       \* max_concurrent ranges over 0..MaxConcurrent
TicksPerSecond == 2      \* resolution of the clock: ticks in one second
MaxClock == 5            \* the clock runs from second 1 to tick MaxClock
MaxSaves == 3            \* number of save_results calls
MaxN == 2                \* get_trend_summary's n ranges over 1..MaxN
MaxUpdates == 3          \* number of update_history calls
MaxSegments == 2         \* an output text is made of at most MaxSegments segments
MaxAssertions == 2       \* check_assertions gets at most MaxAssertions assertions
MaxActions == 2          \* an overlay has at most MaxActions actions
MaxArtifacts == 2        \* expected_artifacts has at most MaxArtifacts entries
MaxSources == 1          \* a workflow declares at most MaxSources sources
MaxTargets == 3          \* a workflow declares at most MaxTargets targets
MaxMethods == 2          \* expected_methods has at most MaxMethods entries
MaxOperations == 2       \* an OpenAPI document has at most MaxOperations annotated operations

(***************************************************************************)
(* Workspace                                                               *)
(***************************************************************************)
None == << >>
Some(v) == <<v>>

Contents == 0..MaxContent
truthy(s) == s # 0                      \* a Python str is falsy iff empty

spec_path == "openapi.yaml"
gen_yaml_path == "gen.yaml"
OverlayNames == {"a.yaml"}
overlay_path(name) == CASE name = "a.yaml" -> "overlays/a.yaml"

\* Relative paths of the model, in the order Python's sorted() gives them.
PathOrder == <<"gen.yaml", "openapi.yaml", "overlays/a.yaml">>
Paths == {PathOrder[i] : i \in 1..Len(PathOrder)}

sorted(S) == SelectSeq(PathOrder, LAMBDA p : p \in S)

\* hashlib.sha256(content).hexdigest(): collision-free on the model's contents.
sha256(content) == <<"sha256", content>>

write_text(d, p, content) ==
    [q \in (DOMAIN d) \cup {p} |-> IF q = p THEN content ELSE d[q]]

unlink(d, p) == [q \in (DOMAIN d) \ {p} |-> d[q]]

EmptyDir == [q \in {} |-> 0]

snapshot_state(d) == [p \in DOMAIN d |-> sha256(d[p])]

\* The files setup writes before it captures the baseline.
setup_files(d, spec_content, gen_yaml, overlays) ==
    LET d1 == write_text(d, spec_path, spec_content)
        d2 == IF gen_yaml # None /\ truthy(gen_yaml[1])
              THEN write_text(d1, gen_yaml_path, gen_yaml[1])
              ELSE d1
        ov == IF overlays # None THEN overlays[1] ELSE EmptyDir
        named == {overlay_path(n) : n \in DOMAIN ov}
    IN  IF overlays # None /\ DOMAIN ov # {}
        THEN [q \in (DOMAIN d2) \cup named |->
                 IF q \in named
                 THEN ov[CHOOSE n \in DOMAIN ov : overlay_path(n) = q]
                 ELSE d2[q]]
        ELSE d2

\* Mutant: the baseline is captured before the fixture files are written.
captured_by_setup_early(before, after) == snapshot_state(before)

captured_by_setup(before, after) == snapshot_state(after)

setup(spec_content, gen_yaml, overlays) ==
    /\ dir_exists
    /\ LET after == setup_files(disk, spec_content, gen_yaml, overlays)
       IN  /\ disk' = after
           /\ initial_state' = Some(captured_by_setup(disk, after))
           /\ setup_baseline' = Some(snapshot_state(after))
    /\ changes' = None
    /\ prevChanges' = None
    /\ mutated' = FALSE
    /\ ws_ret' = [op |-> "setup", value |-> None]
    /\ UNCHANGED dir_exists

NoInitialState ==
    [error |-> TRUE, added |-> << >>, removed |-> << >>, modified |-> << >>,
     unchanged |-> << >>]

\* Mutant: unchanged is every current file that was not modified.
compare_states_keeping_added(initial, current) ==
    LET added == (DOMAIN current) \ (DOMAIN initial)
        removed == (DOMAIN initial) \ (DOMAIN current)
        modified == {k \in (DOMAIN current) \cap (DOMAIN initial) :
                        current[k] # initial[k]}
    IN  [error |-> FALSE,
         added |-> sorted(added),
         removed |-> sorted(removed),
         modified |-> sorted(modified),
         unchanged |-> sorted((DOMAIN current) \ modified)]

compare_states(initial, current) ==
    LET added == (DOMAIN current) \ (DOMAIN initial)
        removed == (DOMAIN initial) \ (DOMAIN current)
        modified == {k \in (DOMAIN current) \cap (DOMAIN initial) :
                        current[k] # initial[k]}
    IN  [error |-> FALSE,
         added |-> sorted(added),
         removed |-> sorted(removed),
         modified |-> sorted(modified),
         unchanged |-> sorted(((DOMAIN current) \ added) \ modified)]

\* Mutant: get_changes keeps the state it just observed as the new baseline.
get_changes_rebasing ==
    /\ changes' = Some(IF initial_state = None THEN NoInitialState
                       ELSE compare_states(initial_state[1], snapshot_state(disk)))
    /\ prevChanges' = changes
    /\ initial_state' = IF initial_state = None THEN None
                        ELSE Some(snapshot_state(disk))
    /\ ws_ret' = [op |-> "get_changes", value |-> None]
    /\ UNCHANGED <<disk, dir_exists, mutated, setup_baseline>>

get_changes ==
    /\ changes' = Some(IF initial_state = None THEN NoInitialState
                       ELSE compare_states(initial_state[1], snapshot_state(disk)))
    /\ prevChanges' = changes
    /\ ws_ret' = [op |-> "get_changes", value |-> None]
    /\ UNCHANGED <<disk, dir_exists, initial_state, mutated, setup_baseline>>

file_exists(rel_path) ==
    /\ ws_ret' = [op |-> "file_exists", value |-> Some(rel_path \in DOMAIN disk)]
    /\ UNCHANGED <<disk, dir_exists, initial_state, changes, prevChanges, mutated,
                   setup_baseline>>

read_file(rel_path) ==
    /\ ws_ret' = [op |-> "read_file",
                  value |-> IF rel_path \in DOMAIN disk THEN Some(disk[rel_path])
                            ELSE None]
    /\ UNCHANGED <<disk, dir_exists, initial_state, changes, prevChanges, mutated,
                   setup_baseline>>

list_files ==
    /\ ws_ret' = [op |-> "list_files", value |-> Some(sorted(DOMAIN disk))]
    /\ UNCHANGED <<disk, dir_exists, initial_state, changes, prevChanges, mutated,
                   setup_baseline>>

\* A mutation of the directory ends the interval over which the results of
\* get_changes are compared.
Mutation(op, d) ==
    /\ disk' = d
    /\ changes' = None
    /\ prevChanges' = None
    /\ mutated' = TRUE
    /\ ws_ret' = [op |-> op, value |-> None]
    /\ UNCHANGED <<initial_state, setup_baseline>>

write_file(rel_path, content) ==
    /\ Mutation("write_file", write_text(disk, rel_path, content))
    /\ dir_exists' = TRUE

\* The agent or the CLI it runs writes or deletes a file of the directory.
ExternalWrite(rel_path, content) ==
    /\ dir_exists
    /\ Mutation("external_write", write_text(disk, rel_path, content))
    /\ UNCHANGED dir_exists

ExternalDelete(rel_path) ==
    /\ rel_path \in DOMAIN disk
    /\ Mutation("external_delete", unlink(disk, rel_path))
    /\ UNCHANGED dir_exists

cleanup ==
    /\ dir_exists
    /\ Mutation("cleanup", EmptyDir)
    /\ dir_exists' = FALSE

OptionalContents == {None} \cup {Some(c) : c \in Contents}
OptionalOverlays ==
    {None} \cup {Some(o) : o \in UNION {[S -> Contents] : S \in SUBSET OverlayNames}}

(***************************************************************************)
(* C1: once setup has captured the baseline, no later call other than      *)
(* setup alters it: the baseline get_changes diffs against is at all times *)
(* the snapshot taken at setup, and every result of get_changes is the     *)
(* difference between that snapshot and the files on disk.                 *)
(***************************************************************************)
C1_BaselineFixed ==
    /\ initial_state = setup_baseline
    /\ (changes # None /\ setup_baseline # None) =>
          LET base == setup_baseline[1]
              r == changes[1]
          IN  /\ ~r.error
              /\ r.added = sorted((DOMAIN disk) \ (DOMAIN base))
              /\ r.removed = sorted((DOMAIN base) \ (DOMAIN disk))
              /\ r.modified = sorted({p \in (DOMAIN disk) \cap (DOMAIN base) :
                                         sha256(disk[p]) # base[p]})

\* A second get_changes in a row, after a first one that reported changes.
C1_Witness ==
    /\ setup_baseline # None
    /\ prevChanges # None
    /\ changes # None
    /\ prevChanges[1].added # << >>
    /\ prevChanges[1].modified # << >>
    /\ changes[1].added # << >>

(***************************************************************************)
(* C2: get_changes right after setup, with no mutation of the directory in *)
(* between, reports nothing added, removed or modified.                    *)
(***************************************************************************)
C2_NoChangesAfterSetup ==
    (changes # None /\ initial_state # None /\ ~mutated) =>
        /\ changes[1].added = << >>
        /\ changes[1].removed = << >>
        /\ changes[1].modified = << >>

C2_Witness ==
    /\ changes # None
    /\ initial_state # None
    /\ ~mutated
    /\ Len(changes[1].unchanged) = 3

(***************************************************************************)
(* C3: two get_changes calls in a row with no mutation between them return *)
(* the same lists, and the first call leaves the baseline as setup         *)
(* captured it.                                                            *)
(***************************************************************************)
C3_Idempotent ==
    (prevChanges # None /\ changes # None) =>
        /\ changes[1] = prevChanges[1]
        /\ initial_state = setup_baseline

C3_Witness ==
    /\ prevChanges # None
    /\ changes # None
    /\ initial_state # None
    /\ changes[1].removed # << >>
    /\ changes[1].modified # << >>

(***************************************************************************)
(* C30: in every state after setup, the four lists get_changes returns are *)
(* pairwise disjoint and sorted, removed is disjoint from the files on     *)
(* disk, added, modified and unchanged together are exactly the files on   *)
(* disk, and removed, modified and unchanged together are exactly the      *)
(* files of the baseline snapshot.                                         *)
(***************************************************************************)
Range(seq) == {seq[i] : i \in DOMAIN seq}

PositionOf(p) == CHOOSE i \in DOMAIN PathOrder : PathOrder[i] = p

IsSorted(seq) ==
    \A i, j \in DOMAIN seq : i < j => PositionOf(seq[i]) < PositionOf(seq[j])

C30_ChangesPartition ==
    (changes # None /\ initial_state # None) =>
        LET r == changes[1]
            added == Range(r.added)
            removed == Range(r.removed)
            modified == Range(r.modified)
            unchanged == Range(r.unchanged)
        IN  /\ ~r.error
            /\ added \cap removed = {}
            /\ added \cap modified = {}
            /\ added \cap unchanged = {}
            /\ removed \cap modified = {}
            /\ removed \cap unchanged = {}
            /\ modified \cap unchanged = {}
            /\ IsSorted(r.added)
            /\ IsSorted(r.removed)
            /\ IsSorted(r.modified)
            /\ IsSorted(r.unchanged)
            /\ removed \cap DOMAIN disk = {}
            /\ added \cup modified \cup unchanged = DOMAIN disk
            /\ removed \cup modified \cup unchanged = DOMAIN initial_state[1]

\* get_changes after a file was added, one removed and one modified.
C30_Witness ==
    /\ changes # None
    /\ initial_state # None
    /\ ws_ret.op = "get_changes"
    /\ changes[1].added # << >>
    /\ changes[1].removed # << >>
    /\ changes[1].modified # << >>

(***************************************************************************)
(* FixtureLoader.load (fixtures.py)                                        *)
(*                                                                         *)
(* A test entry is a record: fixture says which key the entry has          *)
(* ("source", "spec_file" or neither: "inline"), env what the loader finds *)
(* when it resolves it, skill whether the entry has a "skill" key, spec    *)
(* the entry's spec text and error its "error" key (None: no such key).    *)
(***************************************************************************)
SpecText == 1

TestEntry(fixture, env, skill, spec) ==
    [fixture |-> fixture, env |-> env, skill |-> skill, spec |-> spec, error |-> None]

TestDefs ==
    { TestEntry("source", "ok", TRUE, None),
      TestEntry("spec_file", "exists", FALSE, None),
      TestEntry("spec_file", "missing", TRUE, None),
      TestEntry("source", "incomplete", TRUE, None),
      TestEntry("source", "clone_fails", TRUE, None),
      TestEntry("source", "spec_missing", TRUE, None),
      TestEntry("inline", "none", TRUE, None) }

load_file_fixture(test) ==
    IF test.env = "exists"
    THEN [test EXCEPT !.spec = Some(SpecText)]
    ELSE [test EXCEPT !.spec = None, !.error = Some("Spec file not found")]

load_git_fixture_inline(test) ==
    IF test.env = "incomplete"
    THEN [test EXCEPT !.spec = None,
                      !.error = Some("source missing repository or commit")]
    ELSE IF test.env = "clone_fails"
    THEN [test EXCEPT !.spec = None, !.error = Some("Failed to clone repo")]
    ELSE IF test.env = "spec_missing"
    THEN [test EXCEPT !.spec = None, !.error = Some("Spec not found in repo")]
    ELSE [test EXCEPT !.spec = Some(SpecText)]

load(test) ==
    IF test.fixture = "source" THEN load_git_fixture_inline(test)
    ELSE IF test.fixture = "spec_file" THEN load_file_fixture(test)
    ELSE test

(***************************************************************************)
(* EvalRunner.run (runner.py) and SkillEvaluator.evaluate (evaluator.py)   *)
(*                                                                         *)
(* The tasks are asyncio coroutines: a task runs without interruption from *)
(* one await to the next, so each action below is the code between two     *)
(* suspension points.  A run_test task suspends when it waits for the      *)
(* semaphore and when it awaits the agent.  tests is the suite after the   *)
(* skill and name filters.                                                 *)
(***************************************************************************)
Tests == 1..Len(tests)
Indices == [i \in Tests |-> i]

has_error(test) == test.error # None

\* Mutant: every loaded test is handed to the evaluator.
valid_tests_of_unfiltered(ts) == Indices

valid_tests_of(ts) == SelectSeq(Indices, LAMBDA i : ~has_error(ts[i]))

skipped_tests_of(ts) == SelectSeq(Indices, LAMBDA i : has_error(ts[i]))

skipped_detail(i, test) ==
    [name |-> i, passed |-> FALSE, skipped |-> TRUE, error |-> test.error]

\* Mutant: the observer does not limit the concurrency.
effective_max_concurrent_ignoring_observer(obs, mc) == mc

effective_max_concurrent(obs, mc) == IF obs THEN 1 ELSE mc

\* Mutant: the division is made whatever total is.
pass_rate_of_unguarded(passed, total) == <<passed, total>>

pass_rate_of(passed, total) == IF total > 0 THEN <<passed, total>> ELSE <<0, 1>>

RECURSIVE count_passed(_)
count_passed(rs) ==
    IF rs = << >> THEN 0
    ELSE (IF Head(rs).passed THEN 1 ELSE 0) + count_passed(Tail(rs))

\* Lines 77-125 up to the await of gather; with no valid test, up to the return.
run_start ==
    /\ run_pc = "start"
    /\ LET ts == [i \in Tests |-> load(tests[i])]
           valid == valid_tests_of(ts)
           skipped == skipped_tests_of(ts)
           r0 == [total |-> Len(ts), passed |-> 0, failed |-> 0,
                  skipped |-> Len(skipped),
                  details |-> [k \in 1..Len(skipped) |->
                                  skipped_detail(skipped[k], ts[skipped[k]])],
                  pass_rate |-> None]
           started == {valid[k] : k \in 1..Len(valid)}
       IN  /\ loaded' = ts
           /\ valid_tests' = valid
           /\ skipped_tests' = skipped
           /\ sem_value' = effective_max_concurrent(observer, max_concurrent)
           /\ pc' = [t \in Tests |-> IF t \in started THEN "pending" ELSE "skipped"]
           /\ IF valid # << >>
              THEN /\ results' = r0
                   /\ run_pc' = "gathering"
              ELSE /\ results' = [r0 EXCEPT !.pass_rate = Some(pass_rate_of(0, r0.total))]
                   /\ run_pc' = "returned"
    /\ UNCHANGED <<tests, max_concurrent, observer, ws_dir, result, evaluated>>

\* Workspace.__exit__: exc is "none" (the block returned), "exception" or
\* "cancelled" (what was raised inside the block).
\* Mutant: the directory is removed only when the block ends normally.
workspace_exit_on_success_only(d, exc) ==
    IF d = "exists" /\ exc = "none" THEN "removed" ELSE d

workspace_exit(d, exc) == IF d = "exists" THEN "removed" ELSE d

\* async with sem: the permit is taken on entry and given back on every exit.
CanEnter(t) ==
    /\ run_pc = "gathering"
    /\ pc[t] = "pending"
    /\ sem_value > 0

RunFrame == UNCHANGED <<tests, max_concurrent, observer, loaded, valid_tests,
                        skipped_tests, results>>

error_result(msg) == [passed |-> FALSE, error |-> Some(msg)]

\* test["skill"] raises KeyError: the exception leaves evaluate and run_test.
eval_key_error(t) ==
    /\ CanEnter(t)
    /\ ~loaded[t].skill
    /\ evaluated' = evaluated \cup {t}
    /\ pc' = [pc EXCEPT ![t] = "raised"]
    /\ UNCHANGED <<run_pc, sem_value, ws_dir, result>>
    /\ RunFrame

\* "if not spec_content": the evaluation returns before it makes a workspace.
eval_no_spec(t) ==
    /\ CanEnter(t)
    /\ loaded[t].skill
    /\ loaded[t].spec = None
    /\ evaluated' = evaluated \cup {t}
    /\ result' = [result EXCEPT ![t] = Some(error_result("No spec provided"))]
    /\ pc' = [pc EXCEPT ![t] = "done"]
    /\ UNCHANGED <<run_pc, sem_value, ws_dir>>
    /\ RunFrame

\* workspace.setup or _setup_skills_in_workspace raises (an OSError, a missing
\* skills directory) inside the with block, before the agent is awaited.
eval_setup_raises(t) ==
    /\ CanEnter(t)
    /\ loaded[t].skill
    /\ loaded[t].spec # None
    /\ evaluated' = evaluated \cup {t}
    /\ ws_dir' = [ws_dir EXCEPT ![t] = workspace_exit("exists", "exception")]
    /\ pc' = [pc EXCEPT ![t] = "raised"]
    /\ UNCHANGED <<run_pc, sem_value, result>>
    /\ RunFrame

\* The workspace is made and set up, and the task suspends awaiting the agent.
eval_await_agent(t) ==
    /\ CanEnter(t)
    /\ loaded[t].skill
    /\ loaded[t].spec # None
    /\ evaluated' = evaluated \cup {t}
    /\ ws_dir' = [ws_dir EXCEPT ![t] = "exists"]
    /\ sem_value' = sem_value - 1
    /\ pc' = [pc EXCEPT ![t] = "agent"]
    /\ UNCHANGED <<run_pc, result>>
    /\ RunFrame

AtAgent(t) ==
    /\ run_pc = "gathering"
    /\ pc[t] = "agent"

\* _run_agent raises an Exception: "except Exception" returns a failed result.
agent_raises(t) ==
    /\ AtAgent(t)
    /\ result' = [result EXCEPT ![t] = Some(error_result("agent error"))]
    /\ ws_dir' = [ws_dir EXCEPT ![t] = workspace_exit(ws_dir[t], "none")]
    /\ sem_value' = sem_value + 1
    /\ pc' = [pc EXCEPT ![t] = "done"]
    /\ UNCHANGED <<run_pc, evaluated>>
    /\ RunFrame

\* The agent returns and the workspace is assessed: the evaluation returns a
\* verdict, or (overlay tests) "No overlay file created".
agent_returns(t, outcome) ==
    /\ AtAgent(t)
    /\ result' = [result EXCEPT ![t] =
                     Some(IF outcome = "no_overlay"
                          THEN error_result("No overlay file created")
                          ELSE [passed |-> (outcome = "passed"), error |-> None])]
    /\ ws_dir' = [ws_dir EXCEPT ![t] = workspace_exit(ws_dir[t], "none")]
    /\ sem_value' = sem_value + 1
    /\ pc' = [pc EXCEPT ![t] = "done"]
    /\ UNCHANGED <<run_pc, evaluated>>
    /\ RunFrame

\* The agent returns and a step after it raises: assess_workflow_structure on
\* a workflow.yaml that parses to None raises TypeError at "key in content".
assessment_raises(t) ==
    /\ AtAgent(t)
    /\ ws_dir' = [ws_dir EXCEPT ![t] = workspace_exit(ws_dir[t], "exception")]
    /\ sem_value' = sem_value + 1
    /\ pc' = [pc EXCEPT ![t] = "raised"]
    /\ UNCHANGED <<run_pc, result, evaluated>>
    /\ RunFrame

\* gather (return_exceptions left False) hands the first exception of a task
\* to run, which has no handler: run raises.
run_raises ==
    /\ run_pc = "gathering"
    /\ \E t \in Tests : pc[t] = "raised"
    /\ run_pc' = "raised"
    /\ UNCHANGED <<sem_value, pc, ws_dir, result, evaluated>>
    /\ RunFrame

\* The task awaiting run is cancelled (asyncio.run on an interrupt).
run_cancelled ==
    /\ run_pc = "gathering"
    /\ run_pc' = "cancelled"
    /\ UNCHANGED <<sem_value, pc, ws_dir, result, evaluated>>
    /\ RunFrame

\* A task that is still suspended when run has raised or was cancelled is
\* cancelled: CancelledError is raised at its await.
task_cancelled(t) ==
    /\ run_pc \in {"raised", "cancelled"}
    /\ pc[t] \in {"pending", "agent"}
    /\ ws_dir' = [ws_dir EXCEPT ![t] = workspace_exit(ws_dir[t], "cancelled")]
    /\ sem_value' = IF pc[t] = "agent" THEN sem_value + 1 ELSE sem_value
    /\ pc' = [pc EXCEPT ![t] = "cancelled"]
    /\ UNCHANGED <<run_pc, result, evaluated>>
    /\ RunFrame

\* Mutant: the results come in the reverse of the order of the awaitables.
gather_reversed(valid, res) ==
    [k \in 1..Len(valid) |->
        [name |-> valid[Len(valid) + 1 - k],
         passed |-> res[valid[Len(valid) + 1 - k]][1].passed,
         skipped |-> FALSE,
         error |-> res[valid[Len(valid) + 1 - k]][1].error]]

\* asyncio.gather returns the results in the order of the awaitables it was
\* given, the order of valid_tests; run_test has set each result's name.
gather(valid, res) ==
    [k \in 1..Len(valid) |->
        [name |-> valid[k],
         passed |-> res[valid[k]][1].passed,
         skipped |-> FALSE,
         error |-> res[valid[k]][1].error]]

\* Lines 127-135, once every task has returned.
run_returns ==
    /\ run_pc = "gathering"
    /\ \A t \in Tests : pc[t] \in {"done", "skipped"}
    /\ LET test_results == gather(valid_tests, result)
           passed == count_passed(test_results)
           failed == Len(test_results) - passed
       IN  results' = [results EXCEPT
                          !.details = results.details \o test_results,
                          !.passed = passed,
                          !.failed = failed,
                          !.pass_rate = Some(pass_rate_of(passed, results.total))]
    /\ run_pc' = "returned"
    /\ UNCHANGED <<tests, max_concurrent, observer, loaded, valid_tests,
                   skipped_tests, sem_value, pc, ws_dir, result, evaluated>>

InFlight == {t \in Tests : pc[t] = "agent"}
Ended(t) == pc[t] \in {"done", "raised", "cancelled"}

C6_NoExceptionEscapes ==
    /\ run_pc # "raised"
    /\ \A t \in Tests : pc[t] # "raised"

DetailsOf(t) == {k \in DOMAIN results.details : results.details[k].name = t}

C26_CountsAddUp ==
    run_pc = "returned" =>
        /\ results.total = results.passed + results.failed + results.skipped
        /\ results.total = Len(tests)
        /\ Len(results.details) = Len(tests)
        /\ \A t \in Tests : Cardinality(DetailsOf(t)) = 1
        /\ results.passed =
              Cardinality({k \in DOMAIN results.details : results.details[k].passed})
        /\ results.skipped =
              Cardinality({k \in DOMAIN results.details : results.details[k].skipped})
        /\ results.pass_rate # None
        /\ LET r == results.pass_rate[1]
           IN  /\ r[2] # 0
               /\ IF results.total > 0
                  THEN r[1] * results.total = results.passed * r[2]
                  ELSE r[1] = 0

\* A returned run with a skipped, a passed and a failed test.
C26_Witness ==
    /\ run_pc = "returned"
    /\ results.skipped >= 1
    /\ results.passed >= 1
    /\ results.failed >= 1

(***************************************************************************)
(* C28: the order of the details list of a returned run does not depend on *)
(* the interleaving of the evaluations: the skipped tests come first, in   *)
(* load order, then the results of the attempted tests, in load order, and *)
(* each result carries the name of the test it was produced for.           *)
(***************************************************************************)
C28_DetailsInLoadOrder ==
    run_pc = "returned" =>
        LET d == results.details
        IN  /\ \A j, k \in DOMAIN d :
                  j < k =>
                      /\ d[k].skipped => d[j].skipped
                      /\ d[j].skipped = d[k].skipped => d[j].name < d[k].name
            /\ \A k \in DOMAIN d :
                  /\ d[k].name \in Tests
                  /\ d[k].skipped <=> has_error(loaded[d[k].name])
                  /\ d[k].skipped => d[k].error = loaded[d[k].name].error
                  /\ ~d[k].skipped =>
                        /\ result[d[k].name] # None
                        /\ d[k].passed = result[d[k].name][1].passed
                        /\ d[k].error = result[d[k].name][1].error

\* Two evaluations ran side by side with different verdicts, and a test
\* loaded between them was skipped: details is not in load order as a whole.
C28_Witness ==
    /\ run_pc = "returned"
    /\ ~observer
    /\ max_concurrent >= 2
    /\ Len(tests) = 3
    /\ pc[1] = "done"
    /\ pc[2] = "skipped"
    /\ pc[3] = "done"
    /\ result[1][1].passed # result[3][1].passed
    /\ results.details[1].name = 2

(***************************************************************************)
(* C29: if max_concurrent is at least 1 and every evaluation eventually    *)
(* finishes, run eventually returns with every attempted test evaluated:   *)
(* a permit taken by a test is given back on every way its evaluation can  *)
(* end, so that no waiting test is blocked for ever.                       *)
(***************************************************************************)
C29_RunEventuallyReturns ==
    (run_pc = "start" /\ max_concurrent >= 1)
        ~> (/\ run_pc = "returned"
            /\ \A t \in Tests : pc[t] \in {"done", "skipped"}
            /\ \A k \in DOMAIN valid_tests : valid_tests[k] \in evaluated)

(***************************************************************************)
(* EvalTracker (tracker.py): result records and trend summary              *)
(*                                                                         *)
(* The clock counts ticks of 1/TicksPerSecond second.  A file name is a    *)
(* record: kind "timestamp" with its second for a name of the form         *)
(* YYYYMMDD_HHMMSS.json (their lexicographic order is the order of the     *)
(* seconds), kind "adhoc" for any other *.json name.  Numbers that the     *)
(* code divides are rationals <<numerator, denominator>>.                  *)
(***************************************************************************)
Rat(n) == <<n, 1>>
RatAdd(a, b) == <<a[1] * b[2] + b[1] * a[2], a[2] * b[2]>>
RatDiv(a, n) == <<a[1], a[2] * n>>
RatEq(a, b) == a[1] * b[2] = b[1] * a[2]

RECURSIVE RatSum(_)
RatSum(xs) == IF xs = << >> THEN Rat(0) ELSE RatAdd(Head(xs), RatSum(Tail(xs)))

\* One entry of results["details"]: cost_usd is Optional, turns_used is 0
\* when the evaluation returned before it counted turns.
Detail(passed, cost_usd, invoked, turns_used) ==
    [passed |-> passed, cost_usd |-> cost_usd, expected_skill_invoked |-> invoked,
     turns_used |-> turns_used]

DetailRun == Detail(TRUE, Some(3), TRUE, 4)
DetailLong == Detail(TRUE, Some(1), FALSE, 6)
DetailError == Detail(FALSE, None, FALSE, 0)

\* The results dicts handed to the tracker (what EvalRunner.run returns).
ResultInputs ==
    { [pass_rate |-> <<1, 1>>, details |-> <<DetailRun>>],
      [pass_rate |-> <<1, 2>>, details |-> <<DetailLong, DetailError>>],
      [pass_rate |-> <<0, 1>>, details |-> <<DetailError>>],
      [pass_rate |-> <<0, 1>>, details |-> << >>] }

second_of(tick) == tick \div TicksPerSecond

\* f"{timestamp.strftime('%Y%m%d_%H%M%S')}.json"
filename_of(tick) == [kind |-> "timestamp", sec |-> second_of(tick)]

AdhocName == [kind |-> "adhoc", sec |-> 0]

\* json.dumps / json.loads: a file holds JSON text of a value, or other text.
json_dumps(v) == [text |-> "json", value |-> v]
Garbage == [text |-> "garbage", value |-> << >>]
json_loads(text) == IF text.text = "json" THEN Some(text.value) ELSE None

full_results(tick, res) ==
    [metadata |-> [timestamp |-> tick, model |-> "model"], results |-> res]

Tick ==
    /\ now < MaxClock
    /\ now' = now + 1
    /\ UNCHANGED <<files, saved, trend>>

save_results(res) ==
    /\ Len(saved) < MaxSaves
    /\ LET timestamp == now
           filepath == filename_of(timestamp)
           text == json_dumps(full_results(timestamp, res))
       IN  /\ files' = [f \in (DOMAIN files) \cup {filepath} |->
                           IF f = filepath THEN text ELSE files[f]]
           /\ saved' = Append(saved, [name |-> filepath, text |-> text,
                                      before |-> DOMAIN files])
    /\ trend' = None
    /\ UNCHANGED now

timestamp_pattern_match(name) == name.kind = "timestamp"

RECURSIVE sorted_reverse(_)
sorted_reverse(names) ==
    IF names = {} THEN << >>
    ELSE LET m == CHOOSE x \in names : \A y \in names : y.sec <= x.sec
         IN  <<m>> \o sorted_reverse(names \ {m})

take(xs, n) == SubSeq(xs, 1, IF n < Len(xs) THEN n ELSE Len(xs))

RECURSIVE load_all(_, _)
load_all(fs, names) ==
    IF names = << >> THEN << >>
    ELSE LET data == json_loads(fs[Head(names)])
         IN  (IF data # None THEN <<data[1]>> ELSE << >>) \o load_all(fs, Tail(names))

result_files(fs, n) ==
    take(sorted_reverse({f \in DOMAIN fs : timestamp_pattern_match(f)}), n)

get_recent_results(fs, n) == load_all(fs, result_files(fs, n))

cost_of(d) == IF d.cost_usd # None THEN d.cost_usd[1] ELSE 0

RECURSIVE total_cost(_)
total_cost(details) ==
    IF details = << >> THEN 0 ELSE cost_of(Head(details)) + total_cost(Tail(details))

invoked_count(details) ==
    Len(SelectSeq(details, LAMBDA d : d.expected_skill_invoked))

turns_data(details) ==
    LET with_turns == SelectSeq(details, LAMBDA d : d.turns_used # 0)
    IN  [k \in 1..Len(with_turns) |-> Rat(with_turns[k].turns_used)]

mean(xs) == RatDiv(RatSum(xs), Len(xs))

RECURSIVE pass_rates(_)
pass_rates(recent) ==
    IF recent = << >> THEN << >>
    ELSE <<Head(recent).results.pass_rate>> \o pass_rates(Tail(recent))

RECURSIVE costs(_)
costs(recent) ==
    IF recent = << >> THEN << >>
    ELSE <<Rat(total_cost(Head(recent).results.details))>> \o costs(Tail(recent))

\* Mutant: the rate is computed without the "if details" guard.
RECURSIVE skill_invocation_rates_unguarded(_)
skill_invocation_rates_unguarded(recent) ==
    IF recent = << >> THEN << >>
    ELSE LET details == Head(recent).results.details
         IN  <<RatDiv(Rat(invoked_count(details)), Len(details))>>
                 \o skill_invocation_rates_unguarded(Tail(recent))

RECURSIVE skill_invocation_rates(_)
skill_invocation_rates(recent) ==
    IF recent = << >> THEN << >>
    ELSE LET details == Head(recent).results.details
         IN  <<IF details # << >>
               THEN RatDiv(Rat(invoked_count(details)), Len(details))
               ELSE Rat(0)>> \o skill_invocation_rates(Tail(recent))

RECURSIVE avg_turns_list(_)
avg_turns_list(recent) ==
    IF recent = << >> THEN << >>
    ELSE LET details == Head(recent).results.details
         IN  (IF details # << >> /\ turns_data(details) # << >>
              THEN <<mean(turns_data(details))>>
              ELSE << >>) \o avg_turns_list(Tail(recent))

metric_summary(xs) ==
    [latest |-> IF xs # << >> THEN xs[1] ELSE Rat(0),
     avg |-> IF xs # << >> THEN mean(xs) ELSE Rat(0),
     trend |-> xs]

NoResults ==
    [error |-> TRUE, count |-> 0,
     pass_rate |-> metric_summary(<< >>), cost_usd |-> metric_summary(<< >>),
     skill_invocation_rate |-> metric_summary(<< >>),
     avg_turns |-> metric_summary(<< >>)]

trend_summary(fs, n) ==
    LET recent == get_recent_results(fs, n)
    IN  IF recent = << >> THEN NoResults
        ELSE [error |-> FALSE,
              count |-> Len(recent),
              pass_rate |-> metric_summary(pass_rates(recent)),
              cost_usd |-> metric_summary(costs(recent)),
              skill_invocation_rate |-> metric_summary(skill_invocation_rates(recent)),
              avg_turns |-> metric_summary(avg_turns_list(recent))]

get_trend_summary(n) ==
    /\ trend' = Some([n |-> n, summary |-> trend_summary(files, n)])
    /\ UNCHANGED <<files, now, saved>>

(***************************************************************************)
(* C8: result records are append-only: every save_results call added one   *)
(* new record file, and every record an earlier call wrote still exists    *)
(* with the content it was written with.                                   *)
(***************************************************************************)
C8_AppendOnly ==
    \A k \in 1..Len(saved) :
        /\ saved[k].name \notin saved[k].before
        /\ saved[k].name \in DOMAIN files
        /\ files[saved[k].name] = saved[k].text

(***************************************************************************)
(* C10: get_trend_summary(n) considers the n most recent timestamp-named   *)
(* records, most recent first, and for each of the four metrics reports    *)
(* latest = the metric of the most recent record of the window, avg = the  *)
(* mean of the metric over the window and trend = one value per record of  *)
(* the window, most recent first.                                          *)
(***************************************************************************)
\* The metrics of one record, as update_history reports them for a run.
pass_rate_metric(r) == r.results.pass_rate
cost_metric(r) == Rat(total_cost(r.results.details))
skill_invocation_metric(r) ==
    IF r.results.details = << >> THEN Rat(0)
    ELSE RatDiv(Rat(invoked_count(r.results.details)), Len(r.results.details))
avg_turns_metric(r) ==
    IF turns_data(r.results.details) = << >> THEN Rat(0)
    ELSE mean(turns_data(r.results.details))

SummaryOver(window, m, metric(_)) ==
    /\ Len(m.trend) = Len(window)
    /\ \A k \in 1..Len(window) : RatEq(m.trend[k], metric(window[k]))
    /\ RatEq(m.latest, metric(window[1]))
    /\ RatEq(RatDiv(RatSum([k \in 1..Len(window) |-> metric(window[k])]),
                    Len(window)), m.avg)

TrendWindow == get_recent_results(files, trend[1].n)

C10_TrendPerRecord ==
    (trend # None /\ ~trend[1].summary.error) =>
        LET s == trend[1].summary
            window == TrendWindow
        IN  /\ s.count = Len(window)
            /\ SummaryOver(window, s.pass_rate, pass_rate_metric)
            /\ SummaryOver(window, s.cost_usd, cost_metric)
            /\ SummaryOver(window, s.skill_invocation_rate, skill_invocation_metric)
            /\ SummaryOver(window, s.avg_turns, avg_turns_metric)

MetricsOf(s) == {s.pass_rate, s.cost_usd, s.skill_invocation_rate, s.avg_turns}

\* A division by zero leaves a zero denominator in the value it computes and
\* in every value computed from it.
NoZeroDenominator(s) ==
    \A m \in MetricsOf(s) :
        /\ m.latest[2] # 0
        /\ m.avg[2] # 0
        /\ \A k \in 1..Len(m.trend) : m.trend[k][2] # 0

(***************************************************************************)
(* C11: get_trend_summary returns the explicit no-data result exactly when *)
(* the window of loadable timestamp-named records is empty, and it never   *)
(* divides by zero, whatever the window holds (records with an empty       *)
(* details list, records without turn data).                               *)
(***************************************************************************)
C11_NoDataNoZeroDivision ==
    trend # None =>
        /\ trend[1].summary.error <=> (TrendWindow = << >>)
        /\ NoZeroDenominator(trend[1].summary)

\* A summary over a window that holds a record with no details and a record
\* whose details have no turn data.
C11_Witness ==
    /\ trend # None
    /\ ~trend[1].summary.error
    /\ \E i, j \in 1..Len(TrendWindow) :
           /\ TrendWindow[i].results.details = << >>
           /\ TrendWindow[j].results.details # << >>
           /\ turns_data(TrendWindow[j].results.details) = << >>

(***************************************************************************)
(* EvalTracker.update_history (tracker.py): the history file               *)
(*                                                                         *)
(* The file's text is a sequence of tokens: Title is the line              *)
(* "# Evaluation History" without its newline, NL a newline, marker the    *)
(* marker comment and EntryBody(k, r) the text of the entry that the k-th  *)
(* call wrote for results r, from "## " to "---".                          *)
(***************************************************************************)
Token(kind) == [tok |-> kind, entry |-> 0, run |-> None]
Title == Token("title")
NL == Token("newline")
marker == Token("marker")

EntryBody(k, res) == [tok |-> "entry", entry |-> k, run |-> res]

\* entry = f"""\n## {timestamp} ... """, then entry += "---\n"
entry_text(k, res) == <<NL, EntryBody(k, Some(res)), NL>>

\* content.split(marker, 1), for a content that holds the marker
FirstMarker(content) ==
    CHOOSE i \in 1..Len(content) :
        /\ content[i] = marker
        /\ \A j \in 1..(i - 1) : content[j] # marker

split_marker(content) ==
    LET i == FirstMarker(content)
    IN  <<SubSeq(content, 1, i - 1), SubSeq(content, i + 1, Len(content))>>

RECURSIVE lstrip_newlines(_)
lstrip_newlines(text) ==
    IF text # << >> /\ Head(text) = NL THEN lstrip_newlines(Tail(text)) ELSE text

marker_in(content) == \E i \in 1..Len(content) : content[i] = marker

new_history(old, entry) ==
    IF old # None
    THEN LET content == old[1]
         IN  IF marker_in(content)
             THEN LET parts == split_marker(content)
                  IN  parts[1] \o <<marker>> \o <<NL>> \o entry
                          \o lstrip_newlines(parts[2])
             ELSE content \o entry
    ELSE <<Title, NL, NL>> \o entry

update_history(res) ==
    /\ updates < MaxUpdates
    /\ updates' = updates + 1
    /\ history' = Some(new_history(history, entry_text(updates + 1, res)))
    /\ written' = Append(written, entry_text(updates + 1, res))

\* The history files update_history may find: none, the template with the
\* marker, the template with an entry of an earlier session, a file that a
\* first call without a file wrote.
HistoryFiles ==
    { None,
      Some(<<Title, NL, NL, marker, NL>>),
      Some(<<Title, NL, NL, marker, NL, NL, EntryBody(0, None), NL>>),
      Some(<<Title, NL, NL, NL, EntryBody(0, None), NL>>) }

\* Positions of a text (a token sequence) inside the file.
OccursAt(text, content, i) ==
    /\ i + Len(text) - 1 <= Len(content)
    /\ SubSeq(content, i, i + Len(text) - 1) = text

Occurs(text, content) == \E i \in 1..Len(content) : OccursAt(text, content, i)

(***************************************************************************)
(* C9: after any sequence of update_history calls, from no history file or *)
(* from an existing one, the file holds the marker, the entry of the       *)
(* latest call starts on the line right after the marker line, the entries *)
(* written are in the file newest first, and the text of every entry       *)
(* written earlier is still in the file unchanged.                         *)
(***************************************************************************)
C9_PrependedAfterMarker ==
    updates > 0 =>
        LET content == history[1]
        IN  /\ marker_in(content)
            /\ LET i == FirstMarker(content)
               IN  /\ i + 1 <= Len(content)
                   /\ content[i + 1] = NL
                   /\ OccursAt(written[updates], content, i + 2)
            /\ \A j, k \in 1..updates :
                   j < k =>
                       \E pj, pk \in 1..Len(content) :
                           /\ content[pj] = written[j][2]
                           /\ content[pk] = written[k][2]
                           /\ pk < pj
            /\ \A k \in 1..updates : Occurs(written[k], content)

(***************************************************************************)
(* check_assertions (assertions.py)                                        *)
(*                                                                         *)
(* A text is a sequence of symbols, each a fixed piece of text ([fence]     *)
(* stands for three backquotes):                                           *)
(*   OpenYaml, OpenYml, OpenJson (the opening fence with its newline),     *)
(*   Fence (three backquotes), JsonDoc '{}\n' (parses as JSON and as YAML), YamlDoc     *)
(*   'a: 1\n' (parses as YAML only), Broken 'a: [\n' (parses as neither),  *)
(*   Speakeasy 'speakeasy', Space ' ', the letters 'a', 'b' and the        *)
(*   prefix XSpeakeasy 'x-speakeasy-'.                                     *)
(***************************************************************************)
OpenYaml == "[fence]yaml"
OpenYml == "[fence]yml"
OpenJson == "[fence]json"
Fence == "[fence]"
JsonDoc == "{}"
YamlDoc == "a: 1"
Broken == "a: ["
Speakeasy == "speakeasy"
Space == " "
XSpeakeasy == "x-speakeasy-"

\* Every symbol that starts with three backquotes ends a (.*?) and three backquotes match.
StartsWithFence(sym) == sym \in {OpenYaml, OpenYml, OpenJson, Fence}

\* [\w-]
WordChars == {"a", "b", Speakeasy}

\* \s
Whitespace == {Space}

\* yaml.safe_load(block) returns; otherwise it raises yaml.YAMLError
yaml_parses(block) ==
    \/ block = << >>
    \/ block = <<JsonDoc>>
    \/ \A k \in 1..Len(block) : block[k] = YamlDoc
    \/ \A k \in 1..Len(block) : block[k] \in {"a", "b", Speakeasy, Space}

\* json.loads(block) returns; otherwise it raises json.JSONDecodeError
json_parses(block) == block = <<JsonDoc>>

\* re.findall of the fenced yaml / yml blocks, and the same for json:
\* the blocks found scanning from position i.
RECURSIVE findall_blocks(_, _, _)
findall_blocks(text, opens, i) ==
    IF i > Len(text) THEN << >>
    ELSE IF text[i] \in opens /\ \E j \in (i + 1)..Len(text) : StartsWithFence(text[j])
         THEN LET j == CHOOSE j \in (i + 1)..Len(text) :
                          /\ StartsWithFence(text[j])
                          /\ \A h \in (i + 1)..(j - 1) : ~StartsWithFence(text[h])
              IN  <<SubSeq(text, i + 1, j - 1)>> \o findall_blocks(text, opens, j + 1)
         ELSE findall_blocks(text, opens, i + 1)

yaml_blocks(text) == findall_blocks(text, {OpenYaml, OpenYml}, 1)

json_blocks(text) == findall_blocks(text, {OpenJson}, 1)

\* The end of the longest run of symbols of class that starts at i
\* (i - 1 when text[i] is not of the class).
RECURSIVE run_end(_, _, _)
run_end(text, class, i) ==
    IF i <= Len(text) /\ text[i] \in class THEN run_end(text, class, i + 1) ELSE i - 1

\* re.findall(prefix + r'\s+[\w-]+') for 'speakeasy', and
\* re.findall(r'x-speakeasy-[\w-]+'): the tokens found scanning from i.
RECURSIVE findall_tokens(_, _, _, _)
findall_tokens(text, prefix, spaced, i) ==
    IF i > Len(text) THEN << >>
    ELSE LET s == IF spaced THEN run_end(text, Whitespace, i + 1) ELSE i
             w == run_end(text, WordChars, s + 1)
         IN  IF text[i] = prefix /\ (spaced => s > i) /\ w > s
             THEN <<SubSeq(text, i, w)>> \o findall_tokens(text, prefix, spaced, w + 1)
             ELSE findall_tokens(text, prefix, spaced, i + 1)

\* Python's 'v in cmd' for strings
contains(cmd, v) ==
    \E i \in 1..(Len(cmd) + 1) :
        /\ i + Len(v) - 1 <= Len(cmd)
        /\ SubSeq(cmd, i, i + Len(v) - 1) = v

member(x, list) == \E k \in 1..Len(list) : list[k] = x

\* A regular expression is a literal text or does not compile.
Literal(text) == [compiles |-> TRUE, text |-> text]
Malformed == [compiles |-> FALSE, text |-> << >>]

Raised == [raised |-> TRUE, results |-> << >>]
Returned(records) == [raised |-> FALSE, results |-> records]

CheckResult(atype, passed, invalid) ==
    [type |-> atype, passed |-> passed, invalid |-> invalid]

\* Mutant: valid_yaml / valid_json pass whenever no block fails to parse.
blocks_pass_when_none_fails(parsed) == \A k \in 1..Len(parsed) : parsed[k]

\* try: for block in blocks: parse(block); passed = len(blocks) > 0
\* except: passed = False
\* parsed[k] tells whether parsing the k-th block returns.
blocks_pass(parsed) ==
    IF \E k \in 1..Len(parsed) : ~parsed[k]
    THEN FALSE
    ELSE Len(parsed) > 0

yaml_parsed(text) ==
    [k \in 1..Len(yaml_blocks(text)) |-> yaml_parses(yaml_blocks(text)[k])]

json_parsed(text) ==
    [k \in 1..Len(json_blocks(text)) |-> json_parses(json_blocks(text)[k])]

\* Mutant: a command is accepted only when it equals an entry.
command_valid_exact(cmd, valid_list) == member(cmd, valid_list)

\* any(v in cmd for v in valid_list)
command_valid(cmd, valid_list) ==
    \E k \in 1..Len(valid_list) : contains(cmd, valid_list[k])

invalid_commands(found, valid_list) ==
    SelectSeq(found, LAMBDA cmd : ~command_valid(cmd, valid_list))

invalid_extensions(found, valid_list) ==
    SelectSeq(found, LAMBDA ext : ~member(ext, valid_list))

\* One iteration of the loop: the records it appends, or the exception.
check_assertion(text, assertion) ==
    LET atype == assertion.type
        value == assertion.value
    IN  CASE atype = "contains" ->
                Returned(<<CheckResult(atype, contains(text, value.text), << >>)>>)
          [] atype = "not_contains" ->
                Returned(<<CheckResult(atype, ~contains(text, value.text), << >>)>>)
          [] atype = "matches" ->
                IF value.compiles
                THEN Returned(<<CheckResult(atype, contains(text, value.text), << >>)>>)
                ELSE Raised
          [] atype = "valid_yaml" ->
                Returned(<<CheckResult(atype, blocks_pass(yaml_parsed(text)), << >>)>>)
          [] atype = "valid_json" ->
                Returned(<<CheckResult(atype, blocks_pass(json_parsed(text)), << >>)>>)
          [] atype = "no_invalid_extensions" ->
                LET invalid == invalid_extensions(findall_tokens(text, XSpeakeasy, FALSE, 1),
                                                  assertion.valid_list)
                IN  Returned(<<CheckResult(atype, Len(invalid) = 0, invalid)>>)
          [] atype = "no_invalid_commands" ->
                LET invalid == invalid_commands(findall_tokens(text, Speakeasy, TRUE, 1),
                                                assertion.valid_list)
                IN  Returned(<<CheckResult(atype, Len(invalid) = 0, invalid)>>)
          [] OTHER -> Returned(<< >>)

RECURSIVE check_all(_, _)
check_all(text, list) ==
    IF list = << >> THEN Returned(<< >>)
    ELSE LET first == check_assertion(text, Head(list))
             rest == check_all(text, Tail(list))
         IN  IF first.raised \/ rest.raised THEN Raised
             ELSE Returned(first.results \o rest.results)

check_assertions ==
    /\ assert_ret = None
    /\ assert_ret' = Some(check_all(output, assertions))
    /\ UNCHANGED <<output, assertions>>

Assertion(atype, value, valid_list) ==
    [type |-> atype, value |-> value, valid_list |-> valid_list]

SpeakeasyA == <<Speakeasy, Space, "a">>
SpeakeasyAB == <<Speakeasy, Space, "a", "b">>

\* Pieces of agent output: fenced blocks that parse or not, an empty block,
\* an unclosed block, commands.
Segments ==
    { <<OpenYaml, JsonDoc, Fence>>, <<OpenYml, YamlDoc, Fence>>,
      <<OpenYaml, Broken, Fence>>, <<OpenJson, JsonDoc, Fence>>,
      <<OpenJson, YamlDoc, Fence>>, <<OpenJson, Fence>>, <<OpenYaml, Broken>>,
      SpeakeasyA, SpeakeasyAB, <<Space>> }

RECURSIVE TextsOf(_)
TextsOf(n) ==
    IF n = 0 THEN {<< >>}
    ELSE LET shorter == TextsOf(n - 1)
         IN  shorter \cup {t \o s : t \in shorter, s \in Segments}

AssertionInputs ==
    { Assertion("valid_yaml", Literal(<< >>), << >>),
      Assertion("valid_json", Literal(<< >>), << >>),
      Assertion("contains", Literal(SpeakeasyA), << >>),
      Assertion("matches", Malformed, << >>),
      Assertion("no_invalid_commands", Literal(<< >>), <<SpeakeasyA>>),
      Assertion("no_invalid_commands", Literal(<< >>), <<SpeakeasyAB, <<"b">>>>),
      Assertion("unknown", Literal(<< >>), << >>) }

RECURSIVE ListsOf(_)
ListsOf(n) ==
    IF n = 0 THEN {<< >>}
    ELSE LET shorter == ListsOf(n - 1)
         IN  shorter \cup {Append(l, a) : l \in shorter, a \in AssertionInputs}

\* The assertions for which the loop appends a record, in order.
KnownTypes ==
    {"contains", "not_contains", "matches", "valid_yaml", "valid_json",
     "no_invalid_extensions", "no_invalid_commands"}

Recorded == SelectSeq(assertions, LAMBDA a : a.type \in KnownTypes)

(***************************************************************************)
(* C12: check_assertions never raises, whatever the text and the           *)
(* assertions are, and returns one record with a boolean passed field for  *)
(* each assertion it was given.                                            *)
(***************************************************************************)
C12_NeverRaises ==
    assert_ret # None =>
        /\ ~assert_ret[1].raised
        /\ Len(assert_ret[1].results) = Len(assertions)
        /\ \A k \in 1..Len(assert_ret[1].results) :
               assert_ret[1].results[k].passed \in BOOLEAN

(***************************************************************************)
(* C13: a valid_yaml (valid_json) assertion passes if and only if the text *)
(* holds at least one fenced block of that language and every extracted    *)
(* block parses; with no fenced block it yields passed = false.            *)
(***************************************************************************)
BlocksOf(atype) == IF atype = "valid_yaml" THEN yaml_blocks(output) ELSE json_blocks(output)

ParsesAs(atype, block) ==
    IF atype = "valid_yaml" THEN yaml_parses(block) ELSE json_parses(block)

C13_ValidBlocks ==
    (assert_ret # None /\ ~assert_ret[1].raised) =>
        \A k \in 1..Len(Recorded) :
            Recorded[k].type \in {"valid_yaml", "valid_json"} =>
                LET atype == Recorded[k].type
                    blocks == BlocksOf(atype)
                IN  /\ assert_ret[1].results[k].type = atype
                    /\ assert_ret[1].results[k].passed <=>
                           /\ Len(blocks) >= 1
                           /\ \A b \in 1..Len(blocks) : ParsesAs(atype, blocks[b])
                    /\ Len(blocks) = 0 => ~assert_ret[1].results[k].passed

\* A text with two YAML blocks, one that parses and one that does not, was
\* checked by valid_yaml.
C13_Witness ==
    /\ assert_ret # None
    /\ ~assert_ret[1].raised
    /\ Len(yaml_blocks(output)) = 2
    /\ \E a, b \in 1..2 : /\ yaml_parses(yaml_blocks(output)[a])
                           /\ ~yaml_parses(yaml_blocks(output)[b])
    /\ \E k \in 1..Len(Recorded) :
           /\ Recorded[k].type = "valid_yaml"
           /\ ~assert_ret[1].results[k].passed

(***************************************************************************)
(* C14: a no_invalid_commands assertion passes if and only if every        *)
(* 'speakeasy <word>' token found in the text is contained in (is a prefix *)
(* of) some entry of valid_list; the other tokens are reported as invalid. *)
(***************************************************************************)
CommandsOf(text) == findall_tokens(text, Speakeasy, TRUE, 1)

\* a is a piece of b: b = pre \o a \o post
SubstringOf(a, b) ==
    \E i \in 0..Len(b) : \E j \in i..Len(b) :
        /\ j - i = Len(a)
        /\ \A h \in 1..Len(a) : a[h] = b[i + h]

TokenInSomeEntry(cmd, valid_list) ==
    \E e \in 1..Len(valid_list) : SubstringOf(cmd, valid_list[e])

SomeEntryInToken(cmd, valid_list) ==
    \E e \in 1..Len(valid_list) : SubstringOf(valid_list[e], cmd)

C14_TokenPrefixOfEntry ==
    (assert_ret # None /\ ~assert_ret[1].raised) =>
        \A k \in 1..Len(Recorded) :
            Recorded[k].type = "no_invalid_commands" =>
                LET found == CommandsOf(output)
                    valid_list == Recorded[k].valid_list
                    rec == assert_ret[1].results[k]
                IN  /\ rec.passed <=>
                           \A c \in 1..Len(found) : TokenInSomeEntry(found[c], valid_list)
                    /\ rec.invalid =
                           SelectSeq(found, LAMBDA cmd : ~TokenInSomeEntry(cmd, valid_list))

\* C14 as amended: the assertion passes if and only if every token found
\* contains some entry of valid_list; the other tokens are reported.
C14_EntryInToken ==
    (assert_ret # None /\ ~assert_ret[1].raised) =>
        \A k \in 1..Len(Recorded) :
            Recorded[k].type = "no_invalid_commands" =>
                LET found == CommandsOf(output)
                    valid_list == Recorded[k].valid_list
                    rec == assert_ret[1].results[k]
                IN  /\ rec.passed <=>
                           \A c \in 1..Len(found) : SomeEntryInToken(found[c], valid_list)
                    /\ rec.invalid =
                           SelectSeq(found, LAMBDA cmd : ~SomeEntryInToken(cmd, valid_list))

\* A text was checked whose tokens include one that holds an entry of
\* valid_list without being an entry or a piece of one, and the check passed.
C14_Witness ==
    /\ assert_ret # None
    /\ ~assert_ret[1].raised
    /\ \E k \in 1..Len(Recorded) :
           /\ Recorded[k].type = "no_invalid_commands"
           /\ \E c \in 1..Len(CommandsOf(output)) :
                  /\ SomeEntryInToken(CommandsOf(output)[c], Recorded[k].valid_list)
                  /\ ~TokenInSomeEntry(CommandsOf(output)[c], Recorded[k].valid_list)
           /\ assert_ret[1].results[k].passed

(***************************************************************************)
(* WorkspaceAssessor (assessor.py)                                         *)
(*                                                                         *)
(* subject is one call: the method, its arguments and what the method      *)
(* finds in the workspace.  A YAML file is missing, invalid (it does not   *)
(* parse) or parsed; a parsed document is a mapping or null (an empty      *)
(* file).  A value read from a mapping has a kind: missing (no such key),  *)
(* scalar, list or mapping.                                                *)
(***************************************************************************)
Check(name, idx, passed, note) ==
    [name |-> name, idx |-> idx, passed |-> passed, note |-> note]

\* AssessmentResult; raised tells that the method raised instead of returning.
Assessment(passed, checks) == [passed |-> passed, checks |-> checks, raised |-> FALSE]
AssessmentRaised == [passed |-> FALSE, checks |-> << >>, raised |-> TRUE]

all_passed(checks) == \A k \in 1..Len(checks) : checks[k].passed

MissingFile == [state |-> "missing", content |-> << >>]
InvalidFile == [state |-> "invalid", content |-> << >>]
ParsedFile(content) == [state |-> "parsed", content |-> <<content>>]

Absent == [kind |-> "missing", items |-> << >>]
Scalar == [kind |-> "scalar", items |-> << >>]
ListOf(items) == [kind |-> "list", items |-> items]

\* The update of an action: no update key, a string that mentions
\* x-speakeasy-pagination, a mapping with the extension below another key,
\* a mapping without the extension, a mapping whose x-speakeasy-pagination
\* key holds config.
NoUpdate == [kind |-> "missing", config |-> << >>]
TextUpdate == [kind |-> "scalar", config |-> << >>]
NestedUpdate == [kind |-> "nested", config |-> << >>]
PlainUpdate == [kind |-> "mapping", config |-> << >>]
PaginationUpdate(config) == [kind |-> "mapping", config |-> <<config>>]

OverlayAction(target, update, remove) ==
    [target |-> target, update |-> update, remove |-> remove]

OverlayDoc(overlay, info, actions) ==
    [kind |-> "mapping", overlay |-> overlay, info |-> info, actions |-> actions]

NullDoc == [kind |-> "null", overlay |-> FALSE, info |-> FALSE, actions |-> Absent]

\* The action_{i}_valid checks of the actions from index i on (0-based).
RECURSIVE action_checks(_, _)
action_checks(actions, i) ==
    IF i >= Len(actions) THEN << >>
    ELSE LET action == actions[i + 1]
             has_target == action.target
             has_update == action.update.kind # "missing" \/ action.remove
             valid == has_target /\ has_update
         IN  <<Check("action_valid", i, valid, "")>> \o action_checks(actions, i + 1)

\* Mutant: an empty actions list does not count as having actions.
has_actions_nonempty(content) ==
    content.actions.kind = "list" /\ content.actions.items # << >>

\* "actions" in content and isinstance(content.get("actions"), list)
has_actions_of(content) == content.actions.kind = "list"

assess_overlay(file) ==
    IF file.state = "missing"
    THEN Assessment(FALSE, <<Check("overlay_exists", -1, FALSE, "")>>)
    ELSE IF file.state = "invalid"
    THEN Assessment(FALSE, <<Check("overlay_exists", -1, TRUE, ""),
                             Check("valid_yaml", -1, FALSE, "")>>)
    ELSE IF file.content[1].kind # "mapping"
    THEN AssessmentRaised
    ELSE LET content == file.content[1]
             has_overlay_version == content.overlay
             has_info == content.info
             has_actions == has_actions_of(content)
             checks == <<Check("overlay_exists", -1, TRUE, ""),
                         Check("valid_yaml", -1, TRUE, ""),
                         Check("has_overlay_version", -1, has_overlay_version, ""),
                         Check("has_info", -1, has_info, ""),
                         Check("has_actions", -1, has_actions, "")>>
                       \o (IF has_actions THEN action_checks(content.actions.items, 0)
                           ELSE << >>)
             passed == /\ has_overlay_version /\ has_info /\ has_actions
                       /\ (has_actions =>
                              all_passed(action_checks(content.actions.items, 0)))
         IN  Assessment(passed, checks)

\* An x-speakeasy-pagination mapping: ptype is Optional (no type key),
\* inputs and outputs are the kinds of the values, next_cursor tells whether
\* an outputs mapping has the nextCursor key.
PaginationConfig(ptype, inputs, outputs, next_cursor) ==
    [type |-> ptype, inputs |-> inputs, outputs |-> outputs, next_cursor |-> next_cursor]

valid_types == {"cursor", "offsetLimit", "offset"}

\* pagination_configs: the (index, config) pairs of the actions from index i on.
RECURSIVE pagination_configs(_, _)
pagination_configs(actions, i) ==
    IF i >= Len(actions) THEN << >>
    ELSE LET update == actions[i + 1].update
             mentions == update.kind \in {"scalar", "nested"} \/ update.config # None
         IN  (IF mentions /\ update.kind = "mapping" /\ update.config # None
              THEN <<[action_idx |-> i, config |-> update.config[1]]>>
              ELSE << >>) \o pagination_configs(actions, i + 1)

\* Mutant: the type-specific validation is left out.
config_checks_without_cursor_rule(action_idx, config) ==
    LET has_type == config.type # None
        has_inputs == config.inputs = "list"
        has_outputs == config.outputs = "mapping"
    IN  IF ~has_type
        THEN <<Check("has_type", action_idx, FALSE, "")>>
        ELSE <<Check("has_type", action_idx, TRUE, ""),
               Check("valid_type", action_idx, config.type[1] \in valid_types, ""),
               Check("has_inputs", action_idx, has_inputs, ""),
               Check("has_outputs", action_idx, has_outputs, "")>>

\* The checks of one pass of the loop over pagination_configs.
config_checks(action_idx, config) ==
    LET has_type == config.type # None
        pag_type == config.type[1]
        type_valid == pag_type \in valid_types
        has_inputs == config.inputs = "list"
        has_outputs == config.outputs = "mapping"
        has_next_cursor == config.next_cursor
    IN  IF ~has_type
        THEN <<Check("has_type", action_idx, FALSE, "")>>
        ELSE <<Check("has_type", action_idx, TRUE, ""),
               Check("valid_type", action_idx, type_valid, ""),
               Check("has_inputs", action_idx, has_inputs, ""),
               Check("has_outputs", action_idx, has_outputs, "")>>
             \o (IF pag_type = "cursor" /\ has_outputs
                 THEN <<Check("cursor_has_next", action_idx, has_next_cursor, "")>>
                 ELSE << >>)

RECURSIVE all_config_checks(_)
all_config_checks(configs) ==
    IF configs = << >> THEN << >>
    ELSE config_checks(Head(configs).action_idx, Head(configs).config)
             \o all_config_checks(Tail(configs))

assess_pagination_config(file) ==
    IF file.state = "missing"
    THEN Assessment(FALSE, <<Check("overlay_exists", -1, FALSE, "")>>)
    ELSE IF file.state = "invalid"
    THEN Assessment(FALSE, <<Check("valid_yaml", -1, FALSE, "")>>)
    ELSE IF file.content[1].kind # "mapping" \/ file.content[1].actions.kind = "scalar"
    THEN AssessmentRaised
    ELSE LET actions == file.content[1].actions.items
             configs == pagination_configs(actions, 0)
         IN  IF configs = << >>
             THEN Assessment(FALSE, <<Check("valid_yaml", -1, TRUE, ""),
                                      Check("has_pagination", -1, FALSE, "")>>)
             ELSE Assessment(all_passed(all_config_checks(configs)),
                             <<Check("valid_yaml", -1, TRUE, ""),
                               Check("has_pagination", -1, TRUE, "")>>
                             \o all_config_checks(configs))

Step(name, exe, timeout) == [name |-> name, exe |-> exe, timeout |-> timeout]

quick_commands(target) ==
    CASE target = "typescript" -> <<Step("install_deps", "npm", 30), Step("typecheck", "npx", 15)>>
      [] target = "python" -> <<Step("syntax_check", "python", 5)>>
      [] target = "go" -> <<Step("vet", "go", 15)>>
      [] target = "java" -> <<Step("compile", "./gradlew", 60)>>
      [] target = "csharp" -> <<Step("build", "dotnet", 30)>>
      [] target = "php" -> <<Step("syntax", "php", 5)>>
      [] target = "ruby" -> <<Step("syntax", "ruby", 5)>>
      [] target = "terraform" -> <<Step("vet", "go", 15)>>
      [] OTHER -> << >>

full_commands(target) ==
    CASE target = "typescript" -> <<Step("install_deps", "npm", 60), Step("compile", "npm", 30)>>
      [] target = "python" -> <<Step("install_check", "pip", 15), Step("typecheck", "mypy", 30)>>
      [] target = "go" -> <<Step("compile", "go", 30)>>
      [] target = "java" -> <<Step("compile", "./gradlew", 90)>>
      [] target = "csharp" -> <<Step("restore", "dotnet", 30), Step("build", "dotnet", 30)>>
      [] target = "php" -> <<Step("install", "composer", 30), Step("analyze", "./vendor/bin/phpstan", 15)>>
      [] target = "ruby" -> <<Step("install", "bundle", 30), Step("typecheck", "bundle", 15)>>
      [] target = "terraform" -> <<Step("compile", "go", 30)>>
      [] OTHER -> << >>

commands_of(target, mode) ==
    IF mode = "quick" THEN quick_commands(target) ELSE full_commands(target)

\* What subprocess.run does for a step: it returns with exit code 0 ("ok")
\* or another one ("nonzero"), or raises TimeoutExpired ("timeout"),
\* FileNotFoundError ("not_found") or another exception ("error").
Outcomes == {"ok", "nonzero", "timeout", "not_found", "error"}

StepsRun(checks, ran, passed) == [checks |-> checks, ran |-> ran, passed |-> passed]

\* Mutant: a command that is not found is skipped in full mode too.
stops_after_lenient(mode, outcome) == outcome \in {"nonzero", "timeout", "error"}

\* Whether the loop breaks after a step with this outcome.
stops_after(mode, outcome) ==
    \/ outcome \in {"nonzero", "timeout", "error"}
    \/ outcome = "not_found" /\ mode # "quick"

\* Mutant: the loop goes on after a failed step.
RECURSIVE run_steps_no_break(_, _, _, _)
run_steps_no_break(commands, mode, outcomes, k) ==
    IF k > Len(commands) THEN StepsRun(<< >>, << >>, TRUE)
    ELSE LET outcome == outcomes[k]
             success == outcome = "ok" \/ (outcome = "not_found" /\ mode = "quick")
             note == IF outcome = "not_found" /\ mode = "quick" THEN "skipped" ELSE outcome
             check == Check("build", k, success, note)
             rest == run_steps_no_break(commands, mode, outcomes, k + 1)
         IN  StepsRun(<<check>> \o rest.checks, <<k>> \o rest.ran, success /\ rest.passed)

\* The loop over commands from the k-th step on: the checks it adds, the
\* steps for which it calls subprocess.run, whether result.passed stays True.
RECURSIVE run_steps(_, _, _, _)
run_steps(commands, mode, outcomes, k) ==
    IF k > Len(commands) THEN StepsRun(<< >>, << >>, TRUE)
    ELSE LET outcome == outcomes[k]
             success == outcome = "ok" \/ (outcome = "not_found" /\ mode = "quick")
             note == IF outcome = "not_found" /\ mode = "quick" THEN "skipped" ELSE outcome
             check == Check("build", k, success, note)
         IN  IF stops_after(mode, outcome)
             THEN StepsRun(<<check>>, <<k>>, FALSE)
             ELSE LET rest == run_steps(commands, mode, outcomes, k + 1)
                  IN  StepsRun(<<check>> \o rest.checks, <<k>> \o rest.ran, rest.passed)

assess_sdk_compilation(target, mode, outcomes) ==
    LET commands == commands_of(target, mode)
    IN  IF commands = << >>
        THEN [passed |-> FALSE, raised |-> FALSE, ran |-> << >>,
              checks |-> <<Check("build_commands_available", -1, FALSE, "")>>]
        ELSE LET steps == run_steps(commands, mode, outcomes, 1)
             IN  [passed |-> steps.passed, raised |-> FALSE, ran |-> steps.ran,
                  checks |-> <<Check("build_commands_available", -1, TRUE, "")>>
                             \o steps.checks]

\* The workspace as assess_generation sees it: whether .speakeasy/workflow.yaml
\* and .speakeasy/gen.yaml exist, the place of the generated SDK ("none" when
\* there is none; target stands for the target's name) and the paths that
\* exist inside it.
GenWorkspace(workflow, gen_yaml, sdk_at, tree) ==
    [workflow |-> workflow, gen_yaml |-> gen_yaml, sdk_at |-> sdk_at, tree |-> tree]

sdk_patterns == <<"sdk/target", "sdks/target", "target", "sdk">>

DirNames == {"src", "src/main"}

\* candidate.is_dir() for a candidate of sdk_patterns
candidate_is_dir(ws, pattern) ==
    \/ ws.sdk_at = pattern
    \/ pattern = "sdk" /\ ws.sdk_at = "sdk/target"

\* (sdk_dir / rel).exists() and .is_dir()
path_exists(ws, sdk_dir, rel) == ws.sdk_at = sdk_dir /\ rel \in ws.tree
path_is_dir(ws, sdk_dir, rel) == path_exists(ws, sdk_dir, rel) /\ rel \in DirNames

\* The paths of the workspaces considered that a glob pattern matches.
glob(pattern) ==
    CASE pattern = "*.go" -> {"main.go"}
      [] pattern = "**/__init__.py" -> {"src/__init__.py"}
      [] pattern = "**/provider.go" -> {"internal/provider.go"}
      [] OTHER -> {}

check_file_exists(ws, base, rel) == path_exists(ws, base, rel)
check_dir_exists(ws, base, rel) == path_is_dir(ws, base, rel)
check_any_file_exists(ws, base, paths) == \E p \in paths : path_exists(ws, base, p)
check_file_pattern(ws, base, pattern) == \E p \in glob(pattern) : path_exists(ws, base, p)

\* _get_language_checks(target), each check applied to sdk_dir d
get_language_checks(ws, target, d) ==
    CASE target = "typescript" ->
            <<Check("has_package_json", -1, check_file_exists(ws, d, "package.json"), ""),
              Check("has_src_directory", -1, check_dir_exists(ws, d, "src"), ""),
              Check("has_sdk_entrypoint", -1,
                    check_any_file_exists(ws, d, {"src/index.ts", "src/sdk.ts"}), "")>>
      [] target = "python" ->
            <<Check("has_pyproject", -1,
                    check_any_file_exists(ws, d, {"pyproject.toml", "setup.py"}), ""),
              Check("has_src_directory", -1, check_dir_exists(ws, d, "src"), ""),
              Check("has_init_py", -1, check_file_pattern(ws, d, "**/__init__.py"), "")>>
      [] target = "go" ->
            <<Check("has_go_mod", -1, check_file_exists(ws, d, "go.mod"), ""),
              Check("has_go_files", -1, check_file_pattern(ws, d, "*.go"), "")>>
      [] target = "java" ->
            <<Check("has_pom_or_gradle", -1,
                    check_any_file_exists(ws, d, {"pom.xml", "build.gradle"}), ""),
              Check("has_src_main", -1, check_dir_exists(ws, d, "src/main"), "")>>
      [] target = "terraform" ->
            <<Check("has_provider_go", -1, check_file_pattern(ws, d, "**/provider.go"), ""),
              Check("has_go_mod", -1, check_file_exists(ws, d, "go.mod"), "")>>
      [] OTHER -> << >>

\* The first candidate of sdk_patterns that is a directory, from the k-th on.
RECURSIVE first_sdk_dir(_, _)
first_sdk_dir(ws, k) ==
    IF k > Len(sdk_patterns) THEN None
    ELSE IF candidate_is_dir(ws, sdk_patterns[k]) THEN Some(sdk_patterns[k])
    ELSE first_sdk_dir(ws, k + 1)

root_indicator(ws) ==
    \/ path_is_dir(ws, "root", "src")
    \/ path_exists(ws, "root", "go.mod")
    \/ path_exists(ws, "root", "pyproject.toml")
    \/ path_exists(ws, "root", "package.json")

sdk_dir_of(ws) ==
    IF first_sdk_dir(ws, 1) # None THEN first_sdk_dir(ws, 1)
    ELSE IF ws.gen_yaml /\ root_indicator(ws) THEN Some("root")
    ELSE None

RECURSIVE artifact_checks(_, _, _, _)
artifact_checks(ws, sdk_dir, expected_artifacts, i) ==
    IF i > Len(expected_artifacts) THEN << >>
    ELSE <<Check("artifact_" \o expected_artifacts[i], -1,
                 path_exists(ws, sdk_dir, expected_artifacts[i]), "")>>
             \o artifact_checks(ws, sdk_dir, expected_artifacts, i + 1)

assess_generation(ws, target, expected_artifacts) ==
    LET workflow_exists == ws.workflow
        sdk_dir == sdk_dir_of(ws)
        sdk_dir_exists == sdk_dir # None
        first == <<Check("workflow_exists", -1, workflow_exists, ""),
                   Check("sdk_directory_exists", -1, sdk_dir_exists, "")>>
    IN  IF ~sdk_dir_exists
        THEN Assessment(FALSE, first)
        ELSE LET artifacts == artifact_checks(ws, sdk_dir[1], expected_artifacts, 1)
                 language == get_language_checks(ws, target, sdk_dir[1])
             IN  Assessment(workflow_exists /\ all_passed(artifacts) /\ all_passed(language),
                            first \o artifacts \o language)

\* A parsed workflow.yaml as assess_multi_target_workflow reads it: the
\* number of sources and, for each target in order, its Optional output.
WorkflowDoc(sources, targets) == [kind |-> "mapping", sources |-> sources, targets |-> targets]

NullWorkflow == [kind |-> "null", sources |-> 0, targets |-> << >>]

\* target_config.get("output", "./")
output_of(target_config) == IF target_config # None THEN target_config[1] ELSE "./"

outputs_of(targets) == [k \in 1..Len(targets) |-> output_of(targets[k])]

\* Mutant: only neighbouring targets are compared.
unique_neighbours(outputs) ==
    \A k \in 1..(Len(outputs) - 1) : outputs[k] # outputs[k + 1]

\* len(set(outputs)) == len(outputs)
unique(outputs) ==
    Cardinality({outputs[k] : k \in 1..Len(outputs)}) = Len(outputs)

assess_multi_target_workflow(file) ==
    IF file.state = "missing"
    THEN Assessment(FALSE, <<Check("workflow_exists", -1, FALSE, "")>>)
    ELSE IF file.state = "invalid"
    THEN Assessment(FALSE, <<Check("valid_yaml", -1, FALSE, "")>>)
    ELSE IF file.content[1].kind # "mapping"
    THEN AssessmentRaised
    ELSE LET content == file.content[1]
             source_count == content.sources
             target_count == Len(content.targets)
             is_multi_target == target_count > 1
             outputs == outputs_of(content.targets)
             unique_outputs == unique(outputs)
         IN  Assessment(~(is_multi_target /\ ~unique_outputs),
                        <<Check("valid_yaml", -1, TRUE, ""),
                          Check("sources_count", -1, source_count >= 1, ""),
                          Check("is_multi_target", -1, is_multi_target, "")>>
                        \o (IF is_multi_target
                            THEN [k \in 1..target_count |-> Check("target_output", k, TRUE, "")]
                                     \o <<Check("unique_outputs", -1, unique_outputs, "")>>
                            ELSE << >>))

RECURSIVE SeqsUpTo(_, _)
SeqsUpTo(S, n) ==
    IF n = 0 THEN {<< >>}
    ELSE LET shorter == SeqsUpTo(S, n - 1)
         IN  shorter \cup {Append(s, x) : s \in shorter, x \in S}

NoArgs == [none |-> TRUE]

Call(method, file, args) == [method |-> method, file |-> file, args |-> args]

OverlayActions ==
    {OverlayAction(t, u, r) : t \in BOOLEAN, u \in {NoUpdate, PlainUpdate}, r \in BOOLEAN}

OverlaySubjects ==
    {Call("assess_overlay", f, NoArgs) :
        f \in {MissingFile, InvalidFile, ParsedFile(NullDoc)}
              \cup {ParsedFile(OverlayDoc(o, i, a)) :
                        o \in BOOLEAN, i \in BOOLEAN,
                        a \in {Absent, Scalar}
                              \cup {ListOf(s) : s \in SeqsUpTo(OverlayActions, MaxActions)}}}

PaginationConfigs ==
    {PaginationConfig(t, i, o[1], o[2]) :
        t \in {None, Some("cursor"), Some("offsetLimit"), Some("page")},
        i \in {"missing", "list"},
        o \in {<<"missing", FALSE>>, <<"scalar", FALSE>>,
               <<"mapping", FALSE>>, <<"mapping", TRUE>>}}

PaginationActions ==
    {OverlayAction(TRUE, u, FALSE) :
        u \in {NoUpdate, TextUpdate, NestedUpdate}
              \cup {PaginationUpdate(c) : c \in PaginationConfigs}}

PaginationSubjects ==
    {Call("assess_pagination_config", f, NoArgs) :
        f \in {MissingFile, InvalidFile, ParsedFile(NullDoc),
               ParsedFile(OverlayDoc(TRUE, TRUE, Absent)),
               ParsedFile(OverlayDoc(TRUE, TRUE, Scalar))}
              \cup {ParsedFile(OverlayDoc(TRUE, TRUE, ListOf(s))) :
                        s \in SeqsUpTo(PaginationActions, MaxActions)}}

CompilationTargets ==
    {"typescript", "python", "go", "java", "csharp", "php", "ruby", "terraform", "swift"}

CompilationSubjects ==
    UNION {{Call("assess_sdk_compilation", MissingFile,
                 [target |-> t, mode |-> m, outcomes |-> o]) :
                o \in [1..Len(commands_of(t, m)) -> Outcomes]} :
           t \in CompilationTargets, m \in {"quick", "full"}}

SdkFiles == {"package.json", "src", "src/index.ts", "go.mod", "main.go", "README.md"}

SdkTrees == {tree \in SUBSET SdkFiles : "src/index.ts" \in tree => "src" \in tree}

GenWorkspaces ==
    {GenWorkspace(w, g, "none", {}) : w \in BOOLEAN, g \in BOOLEAN}
    \cup {GenWorkspace(w, g, at, tree) :
              w \in BOOLEAN, g \in BOOLEAN,
              at \in {"sdk/target", "sdks/target", "target", "sdk", "root"},
              tree \in SdkTrees}

GenerationSubjects ==
    {Call("assess_generation", MissingFile,
          [ws |-> ws, target |-> t, expected_artifacts |-> e]) :
        ws \in GenWorkspaces, t \in {"typescript", "go", "rust"},
        e \in SeqsUpTo({"README.md", "package.json"}, MaxArtifacts)}

MultiTargetSubjects ==
    {Call("assess_multi_target_workflow", f, NoArgs) :
        f \in {MissingFile, InvalidFile, ParsedFile(NullWorkflow)}
              \cup {ParsedFile(WorkflowDoc(s, t)) :
                        s \in 0..MaxSources,
                        t \in SeqsUpTo({None, Some("./"), Some("./sdk")}, MaxTargets)}}

AssessOverlay ==
    /\ subject.method = "assess_overlay"
    /\ assessment = None
    /\ assessment' = Some(assess_overlay(subject.file))
    /\ UNCHANGED subject

AssessPaginationConfig ==
    /\ subject.method = "assess_pagination_config"
    /\ assessment = None
    /\ assessment' = Some(assess_pagination_config(subject.file))
    /\ UNCHANGED subject

AssessSdkCompilation ==
    /\ subject.method = "assess_sdk_compilation"
    /\ assessment = None
    /\ assessment' = Some(assess_sdk_compilation(subject.args.target, subject.args.mode,
                                                 subject.args.outcomes))
    /\ UNCHANGED subject

AssessGeneration ==
    /\ subject.method = "assess_generation"
    /\ assessment = None
    /\ assessment' = Some(assess_generation(subject.args.ws, subject.args.target,
                                            subject.args.expected_artifacts))
    /\ UNCHANGED subject

AssessMultiTargetWorkflow ==
    /\ subject.method = "assess_multi_target_workflow"
    /\ assessment = None
    /\ assessment' = Some(assess_multi_target_workflow(subject.file))
    /\ UNCHANGED subject

Assessed(method) == subject.method = method /\ assessment # None

HasCheck(name, idx, passed) ==
    \E k \in 1..Len(assessment[1].checks) :
        /\ assessment[1].checks[k].name = name
        /\ assessment[1].checks[k].idx = idx
        /\ assessment[1].checks[k].passed = passed

(***************************************************************************)
(* WorkspaceAssessor: the other assess methods                             *)
(*                                                                         *)
(* A check name that the code builds from a string (a hook name, a method  *)
(* name, a prefix) is built the same way here; a name built from a list    *)
(* index keeps the index in idx.                                           *)
(***************************************************************************)

\* assess_lint_output: errors and warnings tell whether the words occur in
\* the lint output, issues which of the common issue patterns match it.
LintOutput(errors, warnings, issues) ==
    [errors |-> errors, warnings |-> warnings, issues |-> issues]

common_issues ==
    <<[pattern |-> "missing operationId", name |-> "missing_operation_ids"],
      [pattern |-> "missing description", name |-> "missing_descriptions"],
      [pattern |-> "invalid.*$ref", name |-> "invalid_refs"]>>

assess_lint_output(lint_output) ==
    LET error_count == lint_output.errors
    IN  Assessment(error_count = 0,
                   <<Check("no_errors", -1, error_count = 0, ""),
                     Check("warnings_only", -1, TRUE, "")>>
                   \o [k \in 1..Len(common_issues) |->
                          Check(common_issues[k].name, -1,
                                common_issues[k].pattern \notin lint_output.issues, "")])

\* assess_naming: an SDK directory is given by whether it holds source files,
\* which of poor_patterns match the text of its sources and which method
\* names occur in it.
SdkSources(has_files, poor, methods) ==
    [has_files |-> has_files, poor |-> poor, methods |-> methods]

poor_patterns == <<"api_v\\d+_\\w+_\\w+", "endpoint\\d+", "operation\\d+">>

poor_checks(all_content) ==
    LET found == SelectSeq(poor_patterns, LAMBDA p : p \in all_content.poor)
    IN  [k \in 1..Len(found) |-> Check("no_" \o found[k], -1, FALSE, "")]

method_checks(all_content, expected_methods) ==
    [k \in 1..Len(expected_methods) |->
        Check("has_method_" \o expected_methods[k], -1,
              expected_methods[k] \in all_content.methods, "")]

assess_naming(sdk_dir, expected_methods) ==
    IF ~sdk_dir.has_files
    THEN Assessment(FALSE, <<Check("has_source_files", -1, FALSE, "")>>)
    ELSE LET poor == poor_checks(sdk_dir)
             methods == IF expected_methods # None
                        THEN method_checks(sdk_dir, expected_methods[1])
                        ELSE << >>
         IN  Assessment(all_passed(methods),
                        <<Check("has_source_files", -1, TRUE, "")>>
                        \o poor
                        \o (IF poor = << >>
                            THEN <<Check("good_naming", -1, TRUE, "")>>
                            ELSE << >>)
                        \o methods)

\* Mutant: a timeout fails the assessment without a check being recorded.
assess_command_success_unrecorded(outcome) ==
    IF outcome = "timeout" THEN Assessment(FALSE, << >>)
    ELSE Assessment(outcome = "ok", <<Check("command_success", -1, outcome = "ok", outcome)>>)

\* assess_command_success: outcome is what subprocess.run does (Outcomes).
assess_command_success(outcome) ==
    Assessment(outcome = "ok", <<Check("command_success", -1, outcome = "ok", outcome)>>)

\* The merge of assess_overlay_validation: each check is renamed.
RECURSIVE prefixed(_, _)
prefixed(prefix, checks) ==
    IF checks = << >> THEN << >>
    ELSE <<[Head(checks) EXCEPT !.name = prefix \o Head(checks).name]>>
             \o prefixed(prefix, Tail(checks))

assess_overlay_validation(exists, outcome) ==
    IF ~exists
    THEN Assessment(FALSE, <<Check("overlay_exists", -1, FALSE, "")>>)
    ELSE LET validation_result == assess_command_success(outcome)
             merged == prefixed("speakeasy_validate_", validation_result.checks)
         IN  Assessment(all_passed(merged),
                        <<Check("overlay_exists", -1, TRUE, "")>> \o merged)

\* assess_hooks_preserved: hooks gives, for each hook path, what is at the
\* path: nothing ("absent"), an empty file ("empty"), a file of white space
\* ("blank"), a file with text ("content") or a directory ("directory").
hook_paths(target) ==
    CASE target = "typescript" ->
            <<[hook_name |-> "registration", rel_path |-> "src/hooks/registration.ts"],
              [hook_name |-> "types", rel_path |-> "src/hooks/types.ts"]>>
      [] target = "python" ->
            <<[hook_name |-> "registration", rel_path |-> "src/hooks/registration.py"]>>
      [] target = "go" ->
            <<[hook_name |-> "registration", rel_path |-> "internal/hooks/registration.go"]>>
      [] OTHER -> << >>

RECURSIVE hook_checks(_, _)
hook_checks(paths, hooks) ==
    IF paths = << >> THEN << >>
    ELSE LET hook_name == Head(paths).hook_name
             at == hooks[Head(paths).rel_path]
             exists == at # "absent"
             has_content == at = "content"
         IN  <<Check("hook_" \o hook_name \o "_exists", -1, exists, "")>>
             \o (IF exists
                 THEN <<Check("hook_" \o hook_name \o "_has_content", -1, has_content, "")>>
                 ELSE << >>)
             \o hook_checks(Tail(paths), hooks)

\* No statement of assess_hooks_preserved sets result.passed to False.
assess_hooks_preserved(target, hooks) ==
    LET paths == hook_paths(target)
    IN  IF paths = << >>
        THEN Assessment(TRUE, <<Check("hooks_defined", -1, FALSE, "")>>)
        ELSE IF \E k \in 1..Len(paths) : hooks[paths[k].rel_path] = "directory"
        THEN AssessmentRaised
        ELSE Assessment(TRUE, hook_checks(paths, hooks))

\* A parsed .speakeasy/workflow.yaml as assess_workflow_structure reads it:
\* whether it has workflowVersion, and the sources and targets mappings
\* (None: no such key), one entry per key in the order of the file.  An
\* entry of sources tells whether the source has inputs.
StructureDoc(version, sources, targets) ==
    [kind |-> "mapping", version |-> version, sources |-> sources, targets |-> targets]

NullStructure == [kind |-> "null", version |-> FALSE, sources |-> None, targets |-> None]

TargetConfig(has_target, has_source) == [target |-> has_target, source |-> has_source]

\* content.get(key, {}) as a list of the entries
entries_of(mapping) == IF mapping # None THEN mapping[1] ELSE << >>

source_checks(sources) ==
    [k \in 1..Len(sources) |-> Check("source_has_inputs", k, sources[k], "")]

target_checks(targets) ==
    [k \in 1..Len(targets) |->
        Check("target_valid", k, targets[k].target /\ targets[k].source, "")]

assess_workflow_structure(file) ==
    IF file.state = "missing"
    THEN Assessment(FALSE, <<Check("workflow_exists", -1, FALSE, "")>>)
    ELSE IF file.state = "invalid"
    THEN Assessment(FALSE, <<Check("workflow_exists", -1, TRUE, ""),
                             Check("valid_yaml", -1, FALSE, "")>>)
    ELSE IF file.content[1].kind # "mapping"
    THEN AssessmentRaised
    ELSE LET content == file.content[1]
             required == <<Check("has_workflowVersion", -1, content.version, ""),
                           Check("has_sources", -1, content.sources # None, ""),
                           Check("has_targets", -1, content.targets # None, "")>>
             sources == source_checks(entries_of(content.sources))
             targets == target_checks(entries_of(content.targets))
         IN  Assessment(all_passed(required) /\ all_passed(sources) /\ all_passed(targets),
                        <<Check("workflow_exists", -1, TRUE, ""),
                          Check("valid_yaml", -1, TRUE, "")>>
                        \o required \o sources \o targets)

\* A parsed gen.yaml: sections maps each top-level key of the file to None
\* (the key holds null) or to the set of keys of the mapping it holds.
GenYamlDoc(sections) == [kind |-> "mapping", sections |-> sections]

NullGenYaml == [kind |-> "null", sections |-> << >>]

common_fields(lang_key) ==
    CASE lang_key \in {"typescript", "python", "go", "csharp", "ruby", "terraform"} ->
            <<"packageName">>
      [] lang_key = "java" -> <<"groupID", "artifactID">>
      [] lang_key = "php" -> <<"packageName", "namespace">>
      [] OTHER -> << >>

assess_gen_yaml(file, target) ==
    IF file.state = "missing"
    THEN Assessment(FALSE, <<Check("gen_yaml_exists", -1, FALSE, "")>>)
    ELSE IF file.state = "invalid"
    THEN Assessment(FALSE, <<Check("gen_yaml_exists", -1, TRUE, ""),
                             Check("valid_yaml", -1, FALSE, "")>>)
    ELSE IF file.content[1].kind # "mapping"
    THEN AssessmentRaised
    ELSE LET sections == file.content[1].sections
             lang_key == target
             has_lang_section == lang_key \in DOMAIN sections
             first == <<Check("gen_yaml_exists", -1, TRUE, ""),
                        Check("valid_yaml", -1, TRUE, ""),
                        Check("has_" \o lang_key \o "_section", -1, has_lang_section, "")>>
             required == common_fields(lang_key)
         IN  IF ~has_lang_section
             THEN Assessment(FALSE, first)
             ELSE IF sections[lang_key] = None /\ required # << >>
             THEN AssessmentRaised
             ELSE LET fields ==
                          [k \in 1..Len(required) |->
                              Check("has_" \o required[k], -1,
                                    required[k] \in sections[lang_key][1], "")]
                  IN  Assessment(all_passed(fields), first \o fields)

\* content.get(key, {}).get(flag, False): raised tells that the key holds
\* null, so that the second get raises AttributeError.
nested_flag(sections, key, flag) ==
    IF key \notin DOMAIN sections THEN [raised |-> FALSE, value |-> FALSE]
    ELSE IF sections[key] = None THEN [raised |-> TRUE, value |-> FALSE]
    ELSE [raised |-> FALSE, value |-> flag \in sections[key][1]]

assess_mcp_config(file, has_scopes, has_mcp_dir) ==
    IF file.state = "missing"
    THEN Assessment(FALSE, <<Check("gen_yaml_exists", -1, FALSE, "")>>)
    ELSE IF file.state = "invalid"
    THEN Assessment(FALSE, <<Check("valid_yaml", -1, FALSE, "")>>)
    ELSE IF file.content[1].kind # "mapping"
    THEN AssessmentRaised
    ELSE LET mcp_enabled == nested_flag(file.content[1].sections, "typescript",
                                        "enableMCPServer")
         IN  IF mcp_enabled.raised
             THEN AssessmentRaised
             ELSE Assessment(mcp_enabled.value,
                             <<Check("valid_yaml", -1, TRUE, ""),
                               Check("mcp_enabled", -1, mcp_enabled.value, ""),
                               Check("mcp_scopes_overlay_exists", -1, has_scopes, ""),
                               Check("mcp_server_dir_exists", -1, has_mcp_dir, "")>>)

assess_test_generation(file, has_tests_dir, has_arazzo) ==
    IF file.state = "missing"
    THEN Assessment(FALSE, <<Check("gen_yaml_exists", -1, FALSE, "")>>)
    ELSE IF file.state = "invalid"
    THEN Assessment(FALSE, <<Check("valid_yaml", -1, FALSE, "")>>)
    ELSE IF file.content[1].kind # "mapping"
    THEN AssessmentRaised
    ELSE LET generate_tests == nested_flag(file.content[1].sections, "tests",
                                           "generateTests")
         IN  IF generate_tests.raised
             THEN AssessmentRaised
             ELSE Assessment(TRUE,
                             <<Check("valid_yaml", -1, TRUE, ""),
                               Check("generate_tests_enabled", -1, generate_tests.value, ""),
                               Check("tests_dir_exists", -1, has_tests_dir, ""),
                               Check("arazzo_tests_exist", -1, has_arazzo, "")>>)

\* An x-speakeasy-retries config: its Optional strategy, what its backoff
\* key holds ("missing", "scalar" or "mapping") with the keys of the backoff
\* mapping, and whether it has statusCodes.
RetriesConfig(strategy, backoff, backoff_fields, status_codes) ==
    [strategy |-> strategy, backoff |-> backoff, backoff_fields |-> backoff_fields,
     statusCodes |-> status_codes]

\* An update mapping whose x-speakeasy-retries key holds config.
RetriesUpdate(config) == [kind |-> "mapping", config |-> <<config>>]

backoff_fields == <<"initialInterval", "maxInterval", "exponent">>

RECURSIVE retry_configs(_, _)
retry_configs(actions, i) ==
    IF i >= Len(actions) THEN << >>
    ELSE LET update == actions[i + 1].update
         IN  (IF update.kind = "mapping" /\ update.config # None
              THEN <<[action_idx |-> i, config |-> update.config[1]]>>
              ELSE << >>) \o retry_configs(actions, i + 1)

\* The checks of one pass of the loop over retry_configs, and whether the
\* pass leaves result.passed alone.
retry_checks(action_idx, config) ==
    LET has_strategy == config.strategy # None
        has_backoff == config.backoff = "mapping"
        has_status_codes == config.statusCodes
    IN  [checks |->
            <<Check("retries_has_strategy", action_idx, has_strategy, "")>>
            \o (IF config.strategy = Some("backoff")
                THEN <<Check("retries_has_backoff", action_idx, has_backoff, "")>>
                     \o (IF has_backoff
                         THEN [k \in 1..Len(backoff_fields) |->
                                  Check("retries_backoff_" \o backoff_fields[k], action_idx,
                                        backoff_fields[k] \in config.backoff_fields, "")]
                         ELSE << >>)
                ELSE << >>)
            \o <<Check("retries_has_statusCodes", action_idx, has_status_codes, "")>>,
         passed |-> has_strategy /\ (config.strategy = Some("backoff") => has_backoff)]

RECURSIVE all_retry_checks(_)
all_retry_checks(configs) ==
    IF configs = << >> THEN [checks |-> << >>, passed |-> TRUE]
    ELSE LET first == retry_checks(Head(configs).action_idx, Head(configs).config)
             rest == all_retry_checks(Tail(configs))
         IN  [checks |-> first.checks \o rest.checks,
              passed |-> first.passed /\ rest.passed]

assess_retries_config(file) ==
    IF file.state = "missing"
    THEN Assessment(FALSE, <<Check("overlay_exists", -1, FALSE, "")>>)
    ELSE IF file.state = "invalid"
    THEN Assessment(FALSE, <<Check("valid_yaml", -1, FALSE, "")>>)
    ELSE IF file.content[1].kind # "mapping" \/ file.content[1].actions.kind = "scalar"
    THEN AssessmentRaised
    ELSE LET configs == retry_configs(file.content[1].actions.items, 0)
             validated == all_retry_checks(configs)
         IN  IF configs = << >>
             THEN Assessment(FALSE, <<Check("valid_yaml", -1, TRUE, ""),
                                      Check("has_retries", -1, FALSE, "")>>)
             ELSE Assessment(validated.passed,
                             <<Check("valid_yaml", -1, TRUE, ""),
                               Check("has_retries", -1, TRUE, "")>>
                             \o validated.checks)

\* A parsed OpenAPI document as assess_terraform_annotations reads it: the
\* number of schemas with x-speakeasy-entity and, for each operation with
\* x-speakeasy-entity-operation, the text after the last # of its value
\* (None: the value has no #).
TerraformSpec(entities, operations) ==
    [kind |-> "mapping", entities |-> entities, operations |-> operations]

NullSpec == [kind |-> "null", entities |-> 0, operations |-> << >>]

crud_types == <<"create", "read", "update", "delete">>

assess_terraform_annotations(file) ==
    IF file.state = "missing"
    THEN Assessment(FALSE, <<Check("spec_exists", -1, FALSE, "")>>)
    ELSE IF file.state = "invalid"
    THEN Assessment(FALSE, <<Check("valid_yaml", -1, FALSE, "")>>)
    ELSE IF file.content[1].kind # "mapping"
    THEN AssessmentRaised
    ELSE LET content == file.content[1]
             has_entities == content.entities > 0
             has_operations == Len(content.operations) > 0
             count(crud_type) ==
                 Cardinality({k \in 1..Len(content.operations) :
                                 content.operations[k] = Some(crud_type)})
         IN  Assessment(has_entities /\ has_operations,
                        <<Check("valid_yaml", -1, TRUE, ""),
                          Check("has_entity_annotations", -1, has_entities, ""),
                          Check("has_entity_operation_annotations", -1, has_operations, "")>>
                        \o [k \in 1..Len(crud_types) |->
                               Check("has_" \o crud_types[k] \o "_operation", -1,
                                     count(crud_types[k]) > 0, "")])

\* An update mapping as assess_naming_overlay reads it: whether it has
\* x-speakeasy-name-override and x-speakeasy-group.
NamingUpdate(name_override, group) ==
    [kind |-> "mapping", config |-> <<[name_override |-> name_override, group |-> group]>>]

count_updates(actions, extension) ==
    Cardinality({k \in 1..Len(actions) :
                    /\ actions[k].update.kind = "mapping"
                    /\ actions[k].update.config # None
                    /\ actions[k].update.config[1][extension]})

assess_naming_overlay(file) ==
    IF file.state = "missing"
    THEN Assessment(FALSE, <<Check("overlay_exists", -1, FALSE, "")>>)
    ELSE IF file.state = "invalid"
    THEN Assessment(FALSE, <<Check("valid_yaml", -1, FALSE, "")>>)
    ELSE IF file.content[1].kind # "mapping" \/ file.content[1].actions.kind = "scalar"
    THEN AssessmentRaised
    ELSE LET actions == file.content[1].actions.items
             name_overrides == count_updates(actions, "name_override")
             groups == count_updates(actions, "group")
             has_naming == name_overrides > 0 \/ groups > 0
         IN  Assessment(has_naming,
                        <<Check("valid_yaml", -1, TRUE, ""),
                          Check("has_naming_extensions", -1, has_naming, "")>>
                        \o (IF name_overrides > 0
                            THEN <<Check("has_name_overrides", -1, TRUE, "")>>
                            ELSE << >>)
                        \o (IF groups > 0
                            THEN <<Check("has_groups", -1, TRUE, "")>>
                            ELSE << >>))

(***************************************************************************)
(* SkillEvaluator._eval_generation (evaluator.py): the assessment of the   *)
(* workspace once the agent has returned.  A sub-assessment is None when   *)
(* the test does not ask for it (compilation: also when _find_sdk_dir      *)
(* finds no SDK directory).                                                *)
(***************************************************************************)
\* The checks of a sub-assessment as they are appended to the checks of the
\* base assessment: those named in already_in_base are left out.
merged_checks(prefix, checks, already_in_base) ==
    prefixed(prefix, SelectSeq(checks, LAMBDA c : c.name \notin already_in_base))

SubAssessments(base, target, args) ==
    <<[prefix |-> "compile_", skip |-> {},
       result |-> IF args.compilation = None \/ ~base.passed THEN None
                  ELSE Some(assess_sdk_compilation(target, args.compilation[1].mode,
                                                   args.compilation[1].outcomes))],
      [prefix |-> "workflow_", skip |-> {"workflow_exists", "valid_yaml"},
       result |-> IF args.workflow = None THEN None
                  ELSE Some(assess_workflow_structure(args.workflow[1]))],
      [prefix |-> "gen_", skip |-> {},
       result |-> IF args.gen_yaml = None THEN None
                  ELSE Some(assess_gen_yaml(args.gen_yaml[1], target))],
      [prefix |-> "hooks_", skip |-> {},
       result |-> IF args.hooks = None THEN None
                  ELSE Some(assess_hooks_preserved(target, args.hooks[1]))],
      [prefix |-> "mcp_", skip |-> {},
       result |-> IF args.mcp = None THEN None
                  ELSE Some(assess_mcp_config(args.mcp[1], FALSE, FALSE))],
      [prefix |-> "test_", skip |-> {},
       result |-> IF args.tests = None THEN None
                  ELSE Some(assess_test_generation(args.tests[1], FALSE, FALSE))],
      [prefix |-> "multi_", skip |-> {},
       result |-> IF args.multi_target = None THEN None
                  ELSE Some(assess_multi_target_workflow(args.multi_target[1]))]>>

RECURSIVE merge_all(_, _)
merge_all(checks, subs) ==
    IF subs = << >> THEN checks
    ELSE merge_all(checks \o (IF Head(subs).result = None THEN << >>
                              ELSE merged_checks(Head(subs).prefix,
                                                 Head(subs).result[1].checks,
                                                 Head(subs).skip)),
                   Tail(subs))

\* Mutant: a failed check of a sub-assessment fails the test.
verdict_after_merge_strict(assessment_passed, checks) ==
    assessment_passed /\ all_passed(checks)

\* "passed": assessment.passed, read after the merges.
verdict_after_merge(assessment_passed, checks) == assessment_passed

eval_generation(ws, target, subs) ==
    LET base == assess_generation(ws, target, << >>)
        sub_results == SubAssessments(base, target, subs)
        checks == merge_all(base.checks, sub_results)
    IN  IF \E k \in 1..Len(sub_results) :
               sub_results[k].result # None /\ sub_results[k].result[1].raised
        THEN AssessmentRaised
        ELSE Assessment(verdict_after_merge(base.passed, checks), checks)

\* The inputs of the other assess methods.
LintSubjects ==
    {Call("assess_lint_output", MissingFile, LintOutput(e, w, i)) :
        e \in 0..2, w \in 0..1,
        i \in SUBSET {common_issues[k].pattern : k \in 1..Len(common_issues)}}

MethodNames == {"listUsers", "getUser"}

NamingSubjects ==
    {Call("assess_naming", MissingFile, [sdk_dir |-> d, expected_methods |-> e]) :
        d \in {SdkSources(FALSE, {}, {})}
              \cup {SdkSources(TRUE, p, m) :
                        p \in SUBSET {poor_patterns[k] : k \in 1..Len(poor_patterns)},
                        m \in SUBSET MethodNames},
        e \in {None} \cup {Some(s) : s \in SeqsUpTo(MethodNames, MaxMethods)}}

CommandSubjects ==
    {Call("assess_command_success", MissingFile, [outcome |-> o]) : o \in Outcomes}

ValidationSubjects ==
    {Call("assess_overlay_validation", MissingFile, [exists |-> e, outcome |-> o]) :
        e \in BOOLEAN, o \in Outcomes}

HookFiles ==
    {"src/hooks/registration.ts", "src/hooks/types.ts", "src/hooks/registration.py"}

HookStates == {"absent", "empty", "blank", "content", "directory"}

HooksSubjects ==
    {Call("assess_hooks_preserved", MissingFile, [target |-> t, hooks |-> h]) :
        t \in {"typescript", "python", "rust"}, h \in [HookFiles -> HookStates]}

TargetConfigs == {TargetConfig(t, s) : t \in BOOLEAN, s \in BOOLEAN}

StructureFiles ==
    {MissingFile, InvalidFile, ParsedFile(NullStructure)}
    \cup {ParsedFile(StructureDoc(v, s, t)) :
              v \in BOOLEAN,
              s \in {None} \cup {Some(x) : x \in SeqsUpTo(BOOLEAN, MaxSources)},
              t \in {None} \cup {Some(x) : x \in SeqsUpTo(TargetConfigs, MaxTargets)}}

StructureSubjects ==
    {Call("assess_workflow_structure", f, NoArgs) : f \in StructureFiles}

SectionKeys == {"typescript", "java", "tests"}

SectionValues ==
    {None, Some({}), Some({"packageName", "enableMCPServer", "generateTests"}),
     Some({"groupID"}), Some({"groupID", "artifactID"})}

GenYamlFiles ==
    {MissingFile, InvalidFile, ParsedFile(NullGenYaml)}
    \cup {ParsedFile(GenYamlDoc(s)) :
              s \in UNION {[D -> SectionValues] : D \in SUBSET SectionKeys}}

GenYamlSubjects ==
    {Call("assess_gen_yaml", f, [target |-> t]) :
        f \in GenYamlFiles, t \in {"typescript", "java", "rust"}}

McpSubjects ==
    {Call("assess_mcp_config", f, [has_scopes |-> s, has_mcp_dir |-> d]) :
        f \in GenYamlFiles, s \in BOOLEAN, d \in BOOLEAN}

TestGenerationSubjects ==
    {Call("assess_test_generation", f, [has_tests_dir |-> t, has_arazzo |-> a]) :
        f \in GenYamlFiles, t \in BOOLEAN, a \in BOOLEAN}

RetriesConfigs ==
    {RetriesConfig(s, "missing", {}, c) : s \in {None, Some("none")}, c \in BOOLEAN}
    \cup {RetriesConfig(Some("backoff"), b[1], b[2], c) :
              b \in {<<"missing", {}>>, <<"scalar", {}>>, <<"mapping", {}>>,
                     <<"mapping", {"initialInterval"}>>,
                     <<"mapping", {"initialInterval", "maxInterval", "exponent"}>>},
              c \in BOOLEAN}

RetriesActions ==
    {OverlayAction(TRUE, u, FALSE) :
        u \in {NoUpdate, TextUpdate} \cup {RetriesUpdate(c) : c \in RetriesConfigs}}

RetriesSubjects ==
    {Call("assess_retries_config", f, NoArgs) :
        f \in {MissingFile, InvalidFile, ParsedFile(NullDoc),
               ParsedFile(OverlayDoc(TRUE, TRUE, Absent)),
               ParsedFile(OverlayDoc(TRUE, TRUE, Scalar))}
              \cup {ParsedFile(OverlayDoc(TRUE, TRUE, ListOf(s))) :
                        s \in SeqsUpTo(RetriesActions, MaxActions)}}

TerraformSubjects ==
    {Call("assess_terraform_annotations", f, NoArgs) :
        f \in {MissingFile, InvalidFile, ParsedFile(NullSpec)}
              \cup {ParsedFile(TerraformSpec(e, o)) :
                        e \in 0..1,
                        o \in SeqsUpTo({None, Some("create"), Some("read"), Some("list")},
                                       MaxOperations)}}

NamingOverlayActions ==
    {OverlayAction(TRUE, u, FALSE) :
        u \in {NoUpdate, TextUpdate}
              \cup {NamingUpdate(n, g) : n \in BOOLEAN, g \in BOOLEAN}}

NamingOverlaySubjects ==
    {Call("assess_naming_overlay", f, NoArgs) :
        f \in {MissingFile, InvalidFile, ParsedFile(NullDoc),
               ParsedFile(OverlayDoc(TRUE, TRUE, Absent)),
               ParsedFile(OverlayDoc(TRUE, TRUE, Scalar))}
              \cup {ParsedFile(OverlayDoc(TRUE, TRUE, ListOf(s))) :
                        s \in SeqsUpTo(NamingOverlayActions, MaxActions)}}

\* The generation tests considered: a workspace with a complete TypeScript
\* SDK, one whose SDK lacks its entry point, one without an SDK, and for
\* each sub-assessment whether the test asks for it and what it finds.
GoodGenYaml ==
    ParsedFile(GenYamlDoc([k \in {"typescript"} |->
                              Some({"packageName", "enableMCPServer", "generateTests"})]))

AllHooks(at) == [f \in HookFiles |-> at]

EvalGenerationSubjects ==
    {Call("eval_generation", MissingFile,
          [ws |-> ws, target |-> "typescript",
           subs |-> [compilation |-> c, workflow |-> w, gen_yaml |-> g, hooks |-> h,
                     mcp |-> m, tests |-> t, multi_target |-> mt]]) :
        ws \in {GenWorkspace(TRUE, TRUE, "sdk", {"package.json", "src", "src/index.ts"}),
                GenWorkspace(TRUE, TRUE, "sdk", {"package.json", "src"}),
                GenWorkspace(FALSE, FALSE, "none", {})},
        c \in {None,
               Some([mode |-> "quick", outcomes |-> <<"ok", "ok">>]),
               Some([mode |-> "quick", outcomes |-> <<"ok", "timeout">>]),
               Some([mode |-> "full", outcomes |-> <<"nonzero", "ok">>])},
        w \in {None, Some(MissingFile), Some(ParsedFile(NullStructure)),
               Some(ParsedFile(StructureDoc(TRUE, Some(<<TRUE>>),
                                            Some(<<TargetConfig(TRUE, FALSE)>>))))},
        g \in {None, Some(MissingFile), Some(GoodGenYaml)},
        h \in {None, Some(AllHooks("absent")), Some(AllHooks("empty"))},
        m \in {None, Some(MissingFile), Some(GoodGenYaml)},
        t \in {None, Some(GoodGenYaml)},
        mt \in {None, Some(ParsedFile(WorkflowDoc(1, <<Some("./sdk"), Some("./sdk")>>))),
                Some(ParsedFile(WorkflowDoc(1, <<Some("./sdk")>>)))}}

AssessLintOutput ==
    /\ subject.method = "assess_lint_output"
    /\ assessment = None
    /\ assessment' = Some(assess_lint_output(subject.args))
    /\ UNCHANGED subject

AssessNaming ==
    /\ subject.method = "assess_naming"
    /\ assessment = None
    /\ assessment' = Some(assess_naming(subject.args.sdk_dir, subject.args.expected_methods))
    /\ UNCHANGED subject

AssessCommandSuccess ==
    /\ subject.method = "assess_command_success"
    /\ assessment = None
    /\ assessment' = Some(assess_command_success(subject.args.outcome))
    /\ UNCHANGED subject

AssessOverlayValidation ==
    /\ subject.method = "assess_overlay_validation"
    /\ assessment = None
    /\ assessment' = Some(assess_overlay_validation(subject.args.exists, subject.args.outcome))
    /\ UNCHANGED subject

AssessWorkflowStructure ==
    /\ subject.method = "assess_workflow_structure"
    /\ assessment = None
    /\ assessment' = Some(assess_workflow_structure(subject.file))
    /\ UNCHANGED subject

AssessGenYaml ==
    /\ subject.method = "assess_gen_yaml"
    /\ assessment = None
    /\ assessment' = Some(assess_gen_yaml(subject.file, subject.args.target))
    /\ UNCHANGED subject

AssessHooksPreserved ==
    /\ subject.method = "assess_hooks_preserved"
    /\ assessment = None
    /\ assessment' = Some(assess_hooks_preserved(subject.args.target, subject.args.hooks))
    /\ UNCHANGED subject

AssessRetriesConfig ==
    /\ subject.method = "assess_retries_config"
    /\ assessment = None
    /\ assessment' = Some(assess_retries_config(subject.file))
    /\ UNCHANGED subject

AssessTerraformAnnotations ==
    /\ subject.method = "assess_terraform_annotations"
    /\ assessment = None
    /\ assessment' = Some(assess_terraform_annotations(subject.file))
    /\ UNCHANGED subject

AssessMcpConfig ==
    /\ subject.method = "assess_mcp_config"
    /\ assessment = None
    /\ assessment' = Some(assess_mcp_config(subject.file, subject.args.has_scopes,
                                            subject.args.has_mcp_dir))
    /\ UNCHANGED subject

AssessTestGeneration ==
    /\ subject.method = "assess_test_generation"
    /\ assessment = None
    /\ assessment' = Some(assess_test_generation(subject.file, subject.args.has_tests_dir,
                                                 subject.args.has_arazzo))
    /\ UNCHANGED subject

AssessNamingOverlay ==
    /\ subject.method = "assess_naming_overlay"
    /\ assessment = None
    /\ assessment' = Some(assess_naming_overlay(subject.file))
    /\ UNCHANGED subject

EvalGeneration ==
    /\ subject.method = "eval_generation"
    /\ assessment = None
    /\ assessment' = Some(eval_generation(subject.args.ws, subject.args.target,
                                          subject.args.subs))
    /\ UNCHANGED subject

(***************************************************************************)
(* C15: assess_overlay on an existing, parseable overlay document that     *)
(* lacks the actions key, or whose actions is an empty sequence, returns   *)
(* passed = false together with a failed has_actions check, whatever the   *)
(* other fields are.                                                       *)
(***************************************************************************)
C15_NoActionsFails ==
    (/\ Assessed("assess_overlay")
     /\ subject.file.state = "parsed"
     /\ subject.file.content[1].kind = "mapping"
     /\ \/ subject.file.content[1].actions.kind = "missing"
        \/ subject.file.content[1].actions = ListOf(<< >>))
    => /\ ~assessment[1].raised
       /\ ~assessment[1].passed
       /\ HasCheck("has_actions", -1, FALSE)

(***************************************************************************)
(* C16: assess_pagination_config returns passed = false for every overlay  *)
(* with an x-speakeasy-pagination block (the x-speakeasy-pagination entry  *)
(* of an action's update mapping) of type cursor whose outputs has no      *)
(* nextCursor, whatever the other fields and the other blocks are; when    *)
(* the block's type, inputs and outputs are otherwise well-formed,         *)
(* cursor_has_next is the check that fails for it, and has_type,           *)
(* valid_type, has_inputs and has_outputs pass.                            *)
(***************************************************************************)
CursorWithoutNext(action) ==
    /\ action.update.kind = "mapping"
    /\ action.update.config # None
    /\ action.update.config[1].type = Some("cursor")
    /\ ~(action.update.config[1].outputs = "mapping" /\ action.update.config[1].next_cursor)

OtherwiseWellFormed(action) ==
    /\ action.update.config[1].inputs = "list"
    /\ action.update.config[1].outputs = "mapping"

PaginationActionsOf(file) ==
    IF file.state = "parsed" /\ file.content[1].kind = "mapping"
           /\ file.content[1].actions.kind = "list"
    THEN file.content[1].actions.items
    ELSE << >>

BuildCheck(k) ==
    CHOOSE c \in {assessment[1].checks[h] : h \in 1..Len(assessment[1].checks)} :
        c.name = "build" /\ c.idx = k

StepRan(k) == \E h \in 1..Len(assessment[1].ran) : assessment[1].ran[h] = k

C17_CommandNotFound ==
    Assessed("assess_sdk_compilation") =>
        /\ \A k \in DOMAIN subject.args.outcomes :
               (StepRan(k) /\ subject.args.outcomes[k] = "not_found") =>
                   IF subject.args.mode = "quick"
                   THEN /\ HasCheck("build", k, TRUE)
                        /\ BuildCheck(k).note = "skipped"
                   ELSE /\ HasCheck("build", k, FALSE)
                        /\ ~assessment[1].passed
        /\ (/\ subject.args.mode = "quick"
            /\ DOMAIN subject.args.outcomes # {}
            /\ \A k \in DOMAIN subject.args.outcomes :
                   subject.args.outcomes[k] \in {"ok", "not_found"})
           => assessment[1].passed

\* A quick assessment whose first command was not found and whose second
\* step succeeded has passed.
C17_Witness ==
    /\ Assessed("assess_sdk_compilation")
    /\ subject.args.mode = "quick"
    /\ Len(subject.args.outcomes) = 2
    /\ subject.args.outcomes[1] = "not_found"
    /\ subject.args.outcomes[2] = "ok"
    /\ BuildCheck(1).note = "skipped"
    /\ assessment[1].passed

(***************************************************************************)
(* C18: assess_sdk_compilation runs the steps defined for the target and   *)
(* mode in their declared order and stops at the first failing step: once  *)
(* a step exits non-zero or times out no later step is run or recorded,    *)
(* so a failed build check is the last check of the result; apart from the *)
(* command-not-found rule, the assessment fails if and only if some step   *)
(* exits non-zero or times out.                                            *)
(***************************************************************************)
RanInOrder ==
    /\ \A h \in 1..Len(assessment[1].ran) : assessment[1].ran[h] = h
    /\ Len(assessment[1].checks) = 1 + Len(assessment[1].ran)
    /\ \A h \in 1..Len(assessment[1].ran) :
           /\ assessment[1].checks[h + 1].name = "build"
           /\ assessment[1].checks[h + 1].idx = h

FailedBuildCheckIsLast ==
    \A h \in 1..Len(assessment[1].checks) :
        (assessment[1].checks[h].name = "build" /\ ~assessment[1].checks[h].passed)
            => h = Len(assessment[1].checks)

StopsAt(failing) ==
    \A k \in DOMAIN subject.args.outcomes :
        (StepRan(k) /\ subject.args.outcomes[k] \in failing) => ~StepRan(k + 1)

NotFoundInFull(k) ==
    subject.args.mode # "quick" /\ subject.args.outcomes[k] = "not_found"

C18_FailsIffStepFails ==
    Assessed("assess_sdk_compilation") =>
        /\ RanInOrder
        /\ StopsAt({"nonzero", "timeout"})
        /\ FailedBuildCheckIsLast
        /\ ~assessment[1].passed <=>
               \E k \in DOMAIN subject.args.outcomes :
                   /\ StepRan(k)
                   /\ \/ subject.args.outcomes[k] \in {"nonzero", "timeout"}
                      \/ NotFoundInFull(k)

\* C18 as amended: the same, where the assessment fails if and only if no
\* step is defined for the target and mode, or some step that was run exits
\* non-zero, times out, raises another error, or (command-not-found rule)
\* is not found in full mode.
C18_FailsIffNoStepsOrStepFails ==
    Assessed("assess_sdk_compilation") =>
        /\ RanInOrder
        /\ StopsAt({"nonzero", "timeout", "error"})
        /\ FailedBuildCheckIsLast
        /\ ~assessment[1].passed <=>
               \/ commands_of(subject.args.target, subject.args.mode) = << >>
               \/ \E k \in DOMAIN subject.args.outcomes :
                      /\ StepRan(k)
                      /\ \/ subject.args.outcomes[k] \in {"nonzero", "timeout", "error"}
                         \/ NotFoundInFull(k)

\* The first of two steps timed out: the second was not run and the failed
\* check is the last one.
C18_Witness ==
    /\ Assessed("assess_sdk_compilation")
    /\ Len(subject.args.outcomes) = 2
    /\ subject.args.outcomes[1] = "timeout"
    /\ subject.args.outcomes[2] = "ok"
    /\ assessment[1].ran = <<1>>
    /\ ~assessment[1].passed

(***************************************************************************)
(* C19: assess_generation on an empty workspace (no workflow manifest, no  *)
(* SDK directory) fails on workflow_exists and returns at once: no check   *)
(* after workflow_exists is evaluated or recorded.                         *)
(***************************************************************************)
C19_ReturnsAfterWorkflowCheck ==
    (/\ Assessed("assess_generation")
     /\ ~subject.args.ws.workflow
     /\ ~subject.args.ws.gen_yaml
     /\ subject.args.ws.sdk_at = "none")
    => /\ ~assessment[1].passed
       /\ assessment[1].checks = <<Check("workflow_exists", -1, FALSE, "")>>

(***************************************************************************)
(* C20: assess_multi_target_workflow on an existing, parseable workflow    *)
(* manifest returns passed = false exactly when more than one target is    *)
(* declared and two declared targets have the same output path; a single   *)
(* target, or no source, never fails it.                                   *)
(***************************************************************************)
DeclaredOutput(targets, k) == IF targets[k] = None THEN "./" ELSE targets[k][1]

OutputsCollide(targets) ==
    \E i, j \in 1..Len(targets) :
        i # j /\ DeclaredOutput(targets, i) = DeclaredOutput(targets, j)

C20_FailsOnlyOnCollision ==
    (/\ Assessed("assess_multi_target_workflow")
     /\ subject.file.state = "parsed"
     /\ subject.file.content[1].kind = "mapping")
    => LET targets == subject.file.content[1].targets
       IN  /\ ~assessment[1].raised
           /\ ~assessment[1].passed <=> (Len(targets) > 1 /\ OutputsCollide(targets))
           /\ Len(targets) <= 1 => assessment[1].passed
           /\ (subject.file.content[1].sources < 1 /\ ~OutputsCollide(targets))
                  => assessment[1].passed

\* A workflow with no source and three targets, the first and the last with
\* the same output, was assessed and failed.
C20_Witness ==
    /\ Assessed("assess_multi_target_workflow")
    /\ subject.file.state = "parsed"
    /\ subject.file.content[1].kind = "mapping"
    /\ subject.file.content[1].sources = 0
    /\ Len(subject.file.content[1].targets) = 3
    /\ DeclaredOutput(subject.file.content[1].targets, 1)
           = DeclaredOutput(subject.file.content[1].targets, 3)
    /\ DeclaredOutput(subject.file.content[1].targets, 1)
           # DeclaredOutput(subject.file.content[1].targets, 2)
    /\ ~assessment[1].passed
    /\ HasCheck("unique_outputs", -1, FALSE)

(***************************************************************************)
(* C21: assess_hooks_preserved does not fail when an expected hook file is *)
(* absent, but fails (passed = false) whenever an expected hook file of    *)
(* the target exists and is empty.                                         *)
(***************************************************************************)
ExpectedHooks ==
    {hook_paths(subject.args.target)[k].rel_path :
        k \in 1..Len(hook_paths(subject.args.target))}

C21_EmptyHookFails ==
    (Assessed("assess_hooks_preserved") /\ ~assessment[1].raised) =>
        /\ (\A p \in ExpectedHooks : subject.args.hooks[p] \in {"absent", "content"})
              => assessment[1].passed
        /\ (\E p \in ExpectedHooks : subject.args.hooks[p] = "empty")
              => ~assessment[1].passed

(***************************************************************************)
(* C22: assess_naming over an SDK directory that has source files returns  *)
(* passed = false if a poor-naming signature is found in the scanned       *)
(* sources or an expected method name is absent from them, and passed =    *)
(* true otherwise.                                                         *)
(***************************************************************************)
ExpectedMethods ==
    IF subject.args.expected_methods = None THEN {}
    ELSE {subject.args.expected_methods[1][k] :
             k \in 1..Len(subject.args.expected_methods[1])}

C22_NamingVerdict ==
    (Assessed("assess_naming") /\ subject.args.sdk_dir.has_files) =>
        (assessment[1].passed <=>
            /\ subject.args.sdk_dir.poor = {}
            /\ ExpectedMethods \subseteq subject.args.sdk_dir.methods)

(***************************************************************************)
(* C23: whatever the workspace holds and whatever an external command      *)
(* does, each assess method returns a result and never raises: a missing   *)
(* file, a malformed or unexpectedly shaped document (one that parses to   *)
(* an empty or non-mapping value included), a timeout and a missing        *)
(* executable each become a check record, not an exception.                *)
(***************************************************************************)
AssessMethod == subject.method # "eval_generation"

C23_AssessNeverRaises ==
    (assessment # None /\ AssessMethod) => ~assessment[1].raised

(***************************************************************************)
(* C24: within the checks of every result the check names are unique, for  *)
(* each assess method on any input (its list of expected artifacts or      *)
(* methods included), and also after the checks of a sub-assessment were    *)
(* merged into a parent result under a prefix.                             *)
(***************************************************************************)
C24_UniqueNames ==
    assessment # None =>
        \A j, k \in 1..Len(assessment[1].checks) :
            j # k =>
                \/ assessment[1].checks[j].name # assessment[1].checks[k].name
                \/ assessment[1].checks[j].idx # assessment[1].checks[k].idx

(***************************************************************************)
(* C25: in a generation evaluation a compilation failure does not fail the *)
(* test: the verdict of the returned result is the verdict of              *)
(* assess_generation alone, and merging the checks of the compilation,     *)
(* workflow-structure, gen.yaml, hooks, MCP, test-generation and           *)
(* multi-target sub-assessments never changes it.                          *)
(***************************************************************************)
C25_VerdictOfGenerationAlone ==
    (Assessed("eval_generation") /\ ~assessment[1].raised) =>
        assessment[1].passed =
            assess_generation(subject.args.ws, subject.args.target, << >>).passed

\* A generation test passed although a build step of the compilation timed
\* out and sub-assessments recorded failed checks.
C25_Witness ==
    /\ Assessed("eval_generation")
    /\ ~assessment[1].raised
    /\ assessment[1].passed
    /\ \E k \in 1..Len(assessment[1].checks) :
          /\ assessment[1].checks[k].name = "compile_build"
          /\ ~assessment[1].checks[k].passed
    /\ \E k \in 1..Len(assessment[1].checks) :
          /\ assessment[1].checks[k].name = "multi_unique_outputs"
          /\ ~assessment[1].checks[k].passed

(***************************************************************************)
(* C27: a result of an assess method with passed = false holds at least    *)
(* one check record with passed = false: a failing verdict is always       *)
(* explained by a recorded failed check.                                   *)
(***************************************************************************)
C27_FailureExplained ==
    (assessment # None /\ AssessMethod /\ ~assessment[1].raised
        /\ ~assessment[1].passed) =>
        \E k \in 1..Len(assessment[1].checks) : ~assessment[1].checks[k].passed

\* A command that timed out: the assessment failed on its one check.
C27_Witness ==
    /\ Assessed("assess_command_success")
    /\ subject.args.outcome = "timeout"
    /\ ~assessment[1].passed
    /\ Len(assessment[1].checks) = 1
    /\ ~assessment[1].checks[1].passed

\* The converse fails: a recorded failed check beside a verdict of passed.
FailedCheckButPassed ==
    /\ Assessed("assess_hooks_preserved")
    /\ ~assessment[1].raised
    /\ assessment[1].passed
    /\ \E k \in 1..Len(assessment[1].checks) : ~assessment[1].checks[k].passed

(***************************************************************************)
(* Specifications                                                          *)
(***************************************************************************)
InitWs ==
    /\ disk = EmptyDir
    /\ dir_exists = TRUE
    /\ initial_state = None
    /\ changes = None
    /\ prevChanges = None
    /\ mutated = FALSE
    /\ setup_baseline = None
    /\ ws_ret = [op |-> "init", value |-> None]
    \* EvalRunner: not running
    /\ tests = << >>
    /\ max_concurrent = 0
    /\ observer = FALSE
    /\ run_pc = "idle"
    /\ loaded = << >>
    /\ valid_tests = << >>
    /\ skipped_tests = << >>
    /\ results = << >>
    /\ sem_value = 0
    /\ pc = << >>
    /\ ws_dir = << >>
    /\ result = << >>
    /\ evaluated = {}
    \* EvalTracker: not used
    /\ files = << >>
    /\ now = 0
    /\ saved = << >>
    /\ trend = None
    /\ history = None
    /\ updates = 0
    /\ written = << >>
    \* check_assertions: not used
    /\ output = << >>
    /\ assertions = << >>
    /\ assert_ret = None
    \* WorkspaceAssessor: not used
    /\ subject = << >>
    /\ assessment = None

InitRun ==
    /\ tests \in UNION {[1..n -> TestDefs] : n \in 0..NumTests}
    /\ max_concurrent \in 0..MaxConcurrent
    /\ observer \in BOOLEAN
    /\ run_pc = "start"
    /\ loaded = << >>
    /\ valid_tests = << >>
    /\ skipped_tests = << >>
    /\ results = << >>
    /\ sem_value = 0
    /\ pc = [t \in Tests |-> "new"]
    /\ ws_dir = [t \in Tests |-> "none"]
    /\ result = [t \in Tests |-> None]
    /\ evaluated = {}
    \* Workspace: the model of one workspace is not used
    /\ disk = EmptyDir
    /\ dir_exists = TRUE
    /\ initial_state = None
    /\ changes = None
    /\ prevChanges = None
    /\ mutated = FALSE
    /\ setup_baseline = None
    /\ ws_ret = [op |-> "init", value |-> None]
    \* EvalTracker: not used
    /\ files = << >>
    /\ now = 0
    /\ saved = << >>
    /\ trend = None
    /\ history = None
    /\ updates = 0
    /\ written = << >>
    \* check_assertions: not used
    /\ output = << >>
    /\ assertions = << >>
    /\ assert_ret = None
    \* WorkspaceAssessor: not used
    /\ subject = << >>
    /\ assessment = None

WsOnly == UNCHANGED <<runVars, trVars, histVars, asVars, asmVars>>
RunOnly == UNCHANGED <<wsVars, trVars, histVars, asVars, asmVars>>
TrackerOnly == UNCHANGED <<wsVars, runVars, histVars, asVars, asmVars>>
HistoryOnly == UNCHANGED <<wsVars, runVars, trVars, asVars, asmVars>>
AssertOnly == UNCHANGED <<wsVars, runVars, trVars, histVars, asmVars>>
AssessOnly == UNCHANGED <<wsVars, runVars, trVars, histVars, asVars>>

NextWs ==
    \/ \E s \in Contents, g \in OptionalContents, o \in OptionalOverlays :
          setup(s, g, o) /\ WsOnly
    \/ get_changes /\ WsOnly
    \/ \E p \in Paths : file_exists(p) /\ WsOnly
    \/ \E p \in Paths : read_file(p) /\ WsOnly
    \/ list_files /\ WsOnly
    \/ \E p \in Paths, c \in Contents : write_file(p, c) /\ WsOnly
    \/ \E p \in Paths, c \in Contents : ExternalWrite(p, c) /\ WsOnly
    \/ \E p \in Paths : ExternalDelete(p) /\ WsOnly
    \/ cleanup /\ WsOnly

NextRun ==
    \/ run_start /\ RunOnly
    \/ \E t \in Tests : eval_key_error(t) /\ RunOnly
    \/ \E t \in Tests : eval_no_spec(t) /\ RunOnly
    \/ \E t \in Tests : eval_setup_raises(t) /\ RunOnly
    \/ \E t \in Tests : eval_await_agent(t) /\ RunOnly
    \/ \E t \in Tests : agent_raises(t) /\ RunOnly
    \/ \E t \in Tests, o \in {"passed", "failed", "no_overlay"} :
          agent_returns(t, o) /\ RunOnly
    \/ \E t \in Tests : assessment_raises(t) /\ RunOnly
    \/ run_raises /\ RunOnly
    \/ run_cancelled /\ RunOnly
    \/ \E t \in Tests : task_cancelled(t) /\ RunOnly
    \/ run_returns /\ RunOnly

\* The event loop runs every task that can run: a step of the run is
\* eventually taken while one is possible.  Nothing cancels the run from
\* outside.
NextRunLive ==
    \/ run_start /\ RunOnly
    \/ \E t \in Tests : eval_key_error(t) /\ RunOnly
    \/ \E t \in Tests : eval_no_spec(t) /\ RunOnly
    \/ \E t \in Tests : eval_setup_raises(t) /\ RunOnly
    \/ \E t \in Tests : eval_await_agent(t) /\ RunOnly
    \/ \E t \in Tests : agent_raises(t) /\ RunOnly
    \/ \E t \in Tests, o \in {"passed", "failed", "no_overlay"} :
          agent_returns(t, o) /\ RunOnly
    \/ \E t \in Tests : assessment_raises(t) /\ RunOnly
    \/ run_raises /\ RunOnly
    \/ \E t \in Tests : task_cancelled(t) /\ RunOnly
    \/ run_returns /\ RunOnly

\* The results directory may hold files of earlier sessions: an ad hoc file
\* and a timestamp-named file whose text is not JSON.
InitTracker ==
    /\ files \in { [f \in D |-> IF f = AdhocName
                                THEN json_dumps(full_results(0, CHOOSE r \in ResultInputs : r.details = << >>))
                                ELSE Garbage] :
                    D \in SUBSET {AdhocName, filename_of(0)} }
    /\ now \in TicksPerSecond..MaxClock
    /\ saved = << >>
    /\ trend = None
    /\ history = None
    /\ updates = 0
    /\ written = << >>
    \* Workspace: not used
    /\ disk = EmptyDir
    /\ dir_exists = TRUE
    /\ initial_state = None
    /\ changes = None
    /\ prevChanges = None
    /\ mutated = FALSE
    /\ setup_baseline = None
    /\ ws_ret = [op |-> "init", value |-> None]
    \* EvalRunner: not used
    /\ tests = << >>
    /\ max_concurrent = 0
    /\ observer = FALSE
    /\ run_pc = "idle"
    /\ loaded = << >>
    /\ valid_tests = << >>
    /\ skipped_tests = << >>
    /\ results = << >>
    /\ sem_value = 0
    /\ pc = << >>
    /\ ws_dir = << >>
    /\ result = << >>
    /\ evaluated = {}
    \* check_assertions: not used
    /\ output = << >>
    /\ assertions = << >>
    /\ assert_ret = None
    \* WorkspaceAssessor: not used
    /\ subject = << >>
    /\ assessment = None

InitHistory ==
    /\ history \in HistoryFiles
    /\ updates = 0
    /\ written = << >>
    /\ files = << >>
    /\ now = 0
    /\ saved = << >>
    /\ trend = None
    \* Workspace: not used
    /\ disk = EmptyDir
    /\ dir_exists = TRUE
    /\ initial_state = None
    /\ changes = None
    /\ prevChanges = None
    /\ mutated = FALSE
    /\ setup_baseline = None
    /\ ws_ret = [op |-> "init", value |-> None]
    \* EvalRunner: not used
    /\ tests = << >>
    /\ max_concurrent = 0
    /\ observer = FALSE
    /\ run_pc = "idle"
    /\ loaded = << >>
    /\ valid_tests = << >>
    /\ skipped_tests = << >>
    /\ results = << >>
    /\ sem_value = 0
    /\ pc = << >>
    /\ ws_dir = << >>
    /\ result = << >>
    /\ evaluated = {}
    \* check_assertions: not used
    /\ output = << >>
    /\ assertions = << >>
    /\ assert_ret = None
    \* WorkspaceAssessor: not used
    /\ subject = << >>
    /\ assessment = None

InitAssert ==
    /\ output \in TextsOf(MaxSegments)
    /\ assertions \in ListsOf(MaxAssertions)
    /\ assert_ret = None
    \* Workspace: not used
    /\ disk = EmptyDir
    /\ dir_exists = TRUE
    /\ initial_state = None
    /\ changes = None
    /\ prevChanges = None
    /\ mutated = FALSE
    /\ setup_baseline = None
    /\ ws_ret = [op |-> "init", value |-> None]
    \* EvalRunner: not used
    /\ tests = << >>
    /\ max_concurrent = 0
    /\ observer = FALSE
    /\ run_pc = "idle"
    /\ loaded = << >>
    /\ valid_tests = << >>
    /\ skipped_tests = << >>
    /\ results = << >>
    /\ sem_value = 0
    /\ pc = << >>
    /\ ws_dir = << >>
    /\ result = << >>
    /\ evaluated = {}
    \* EvalTracker: not used
    /\ files = << >>
    /\ now = 0
    /\ saved = << >>
    /\ trend = None
    /\ history = None
    /\ updates = 0
    /\ written = << >>
    \* WorkspaceAssessor: not used
    /\ subject = << >>
    /\ assessment = None

InitAssess ==
    /\ \/ subject \in OverlaySubjects
       \/ subject \in PaginationSubjects
       \/ subject \in CompilationSubjects
       \/ subject \in GenerationSubjects
       \/ subject \in MultiTargetSubjects
       \/ subject \in LintSubjects
       \/ subject \in NamingSubjects
       \/ subject \in CommandSubjects
       \/ subject \in ValidationSubjects
       \/ subject \in StructureSubjects
       \/ subject \in GenYamlSubjects
       \/ subject \in HooksSubjects
       \/ subject \in RetriesSubjects
       \/ subject \in TerraformSubjects
       \/ subject \in McpSubjects
       \/ subject \in TestGenerationSubjects
       \/ subject \in NamingOverlaySubjects
       \/ subject \in EvalGenerationSubjects
    /\ assessment = None
    \* Workspace: not used
    /\ disk = EmptyDir
    /\ dir_exists = TRUE
    /\ initial_state = None
    /\ changes = None
    /\ prevChanges = None
    /\ mutated = FALSE
    /\ setup_baseline = None
    /\ ws_ret = [op |-> "init", value |-> None]
    \* EvalRunner: not used
    /\ tests = << >>
    /\ max_concurrent = 0
    /\ observer = FALSE
    /\ run_pc = "idle"
    /\ loaded = << >>
    /\ valid_tests = << >>
    /\ skipped_tests = << >>
    /\ results = << >>
    /\ sem_value = 0
    /\ pc = << >>
    /\ ws_dir = << >>
    /\ result = << >>
    /\ evaluated = {}
    \* EvalTracker: not used
    /\ files = << >>
    /\ now = 0
    /\ saved = << >>
    /\ trend = None
    /\ history = None
    /\ updates = 0
    /\ written = << >>
    \* check_assertions: not used
    /\ output = << >>
    /\ assertions = << >>
    /\ assert_ret = None

NextTracker ==
    \/ Tick /\ TrackerOnly
    \/ \E res \in ResultInputs : save_results(res) /\ TrackerOnly
    \/ \E n \in 1..MaxN : get_trend_summary(n) /\ TrackerOnly

NextHistory ==
    \/ \E res \in ResultInputs : update_history(res) /\ HistoryOnly

NextAssert ==
    \/ check_assertions /\ AssertOnly

NextAssess ==
    \/ AssessOverlay /\ AssessOnly
    \/ AssessPaginationConfig /\ AssessOnly
    \/ AssessSdkCompilation /\ AssessOnly
    \/ AssessGeneration /\ AssessOnly
    \/ AssessMultiTargetWorkflow /\ AssessOnly
    \/ AssessLintOutput /\ AssessOnly
    \/ AssessNaming /\ AssessOnly
    \/ AssessCommandSuccess /\ AssessOnly
    \/ AssessOverlayValidation /\ AssessOnly
    \/ AssessWorkflowStructure /\ AssessOnly
    \/ AssessGenYaml /\ AssessOnly
    \/ AssessHooksPreserved /\ AssessOnly
    \/ AssessRetriesConfig /\ AssessOnly
    \/ AssessTerraformAnnotations /\ AssessOnly
    \/ AssessMcpConfig /\ AssessOnly
    \/ AssessTestGeneration /\ AssessOnly
    \/ AssessNamingOverlay /\ AssessOnly
    \/ EvalGeneration /\ AssessOnly

SpecWs == InitWs /\ [][NextWs]_vars
SpecRun == InitRun /\ [][NextRun]_vars
SpecRunLive == InitRun /\ [][NextRunLive]_vars /\ WF_vars(NextRunLive)
SpecTracker == InitTracker /\ [][NextTracker]_vars
SpecHistory == InitHistory /\ [][NextHistory]_vars
SpecAssert == InitAssert /\ [][NextAssert]_vars
SpecAssess == InitAssess /\ [][NextAssess]_vars

====
